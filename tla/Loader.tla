-------------------------------- MODULE Loader --------------------------------
(***************************************************************************)
(* The boot archive (initrd.c) and the module loader (module.c, elf.c):    *)
(* the files of a tar archive are listed, and the modules that its table   *)
(* names are loaded one after the other, linked against the modules they   *)
(* depend on, and started.                                                 *)
(*                                                                         *)
(* An object file is a record of what the loader reads of it.  A symbol's  *)
(* address tells its module and name apart from all others.  Names of      *)
(* symbols have a hash, and several may have the same.                     *)
(***************************************************************************)
EXTENDS Integers, Sequences, FiniteSets, SequencesExt

CONSTANTS
  Archive,     \* archives: sequences of files with a name and a size
  Block,       \* the size of a tar header (512)
  Object,      \* the object file of each file name that is one
  Modtab,      \* tables of modules: sequences of file names
  Hash,        \* hash_string, on the symbols of the objects
  ModBase,     \* 0xcf000000
  ModPage      \* PAGE_SIZE

(* An object's file has the name that it provides, and its segments are in *)
(* the order of their addresses, as ELF has them.                          *)
ObjectFile(name, object) ==
  /\ object.provides = name
  /\ object.depends \in Seq(DOMAIN Object) /\ object.relocations \in Seq(DOMAIN Hash)
  /\ object.symbols \subseteq DOMAIN Hash
  /\ object.segments \in Seq([vaddr : Nat, memsz : Nat, writable : BOOLEAN])
  /\ \A i \in DOMAIN object.segments :
       LET last == object.segments[Len(object.segments)]
       IN  object.segments[i].vaddr + object.segments[i].memsz <= last.vaddr + last.memsz

ASSUME LoaderAssumption ==
  /\ Block \in Nat \ {0} /\ ModBase \in Nat /\ ModPage \in Nat \ {0}
  /\ ModBase % ModPage = 0 /\ Modtab \subseteq Seq(DOMAIN Object)
  /\ \A files \in Archive :
       files \in Seq(Range(files)) /\ \A i \in DOMAIN files : files[i].size \in Nat
  /\ \A name \in DOMAIN Object : ObjectFile(name, Object[name])
  /\ "base" \in DOMAIN Object /\ Object["base"].depends = <<>>

VARIABLES
  archive, modtab,
  headers,      \* the files that init_initrd found; 0 before it ran
  next,         \* the position in modtab
  mod_list,     \* the modules loaded, and before them the kernel itself
  mod_address,
  areas         \* the pages that objects were copied to

loaderVars == <<archive, modtab, headers, next, mod_list, mod_address, areas>>

-----------------------------------------------------------------------------
(* initrd.c.  A file's header is at a block of the archive. *)
HeaderAt(files, i) ==
  FoldLeft(LAMBDA at, f : at + 1 + ((f.size + Block - 1) \div Block), 0, SubSeq(files, 1, i - 1))

(* Faulty variant of Advance: the last block of a file is left out. *)
AdvanceWhole(at, size) == at + size \div Block + 1

(* From one header to where the next is looked for *)
Advance(at, size) == at + size \div Block + 1 + (IF size % Block > 1 THEN 1 ELSE 0)

(* init_initrd walks from header to header; where it finds none it is      *)
(* taken to stop.                                                          *)
InitInitrd(files) ==
  FoldLeft(LAMBDA s, i :
             IF s.at # HeaderAt(files, i) THEN s
             ELSE [at |-> Advance(s.at, files[i].size), found |-> Append(s.found, files[i].name)],
           [at |-> 0, found |-> <<>>], [i \in 1..Len(files) |-> i]).found

-----------------------------------------------------------------------------
(* The kernel's own entry, of init_module_system *)
Base == [name |-> "base", address |-> 0, depends |-> <<>>, links |-> <<>>,
         symcache |-> {}, resolved |-> {}]

LoaderInit ==
  /\ archive \in Archive /\ modtab \in Modtab
  /\ headers = <<>> /\ next = 0
  /\ mod_list = <<Base>> /\ mod_address = ModBase /\ areas = {}

OpenInitrd ==
  /\ next = 0 /\ next' = 1
  /\ headers' = InitInitrd(archive)
  /\ UNCHANGED <<archive, modtab, mod_list, mod_address, areas>>

(* The symbols a module defines; "base" stands for the kernel's image. *)
ObjectOf(mod) == Object[mod.name]

SymbolAddress(mod, name) == <<mod.address, name>>

(* Faulty variant of Cached: only the bucket is compared. *)
CachedInBucket(mod, name) == {c \in mod.symcache : Hash[c[2]] % 2 = Hash[name] % 2}

(* The addresses that symcache has for a name: it is searched by hash. *)
Cached(mod, name) == {c \in mod.symcache : Hash[c[2]] = Hash[name]}

(* get_real_symbol_address: none is {}. *)
RealSymbolAddress(mod, name) ==
  IF Cached(mod, name) # {} THEN Cached(mod, name)
  ELSE IF name \in ObjectOf(mod).symbols THEN {SymbolAddress(mod, name)} ELSE {}

(* The module with the answer in its cache *)
WithCached(mod, name) == [mod EXCEPT !.symcache = @ \cup RealSymbolAddress(mod, name)]

(* get_module: the first of that name *)
Named(mods, name) == {i \in DOMAIN mods : mods[i].name = name}
GetModule(mods, name) == CHOOSE i \in Named(mods, name) : \A j \in Named(mods, name) : i <= j

(* module_link_symbol: the module itself, then what it depends on, in      *)
(* order.  A step of the loop over the relocations: s has the module, the  *)
(* list of modules (whose caches fill), and whether all went well.         *)
LinkSymbol(s, name) ==
  LET in == {k \in DOMAIN s.mod.depends :
               RealSymbolAddress(s.mods[s.mod.depends[k]], name) # {}}
      own == RealSymbolAddress(s.mod, name)
      d == s.mod.depends[Min(in)]
      cached == WithCached(s.mod, name)
  IN  IF own # {}
      THEN [s EXCEPT !.mod = [cached EXCEPT !.resolved = @ \cup {<<name, own>>}]]
      ELSE IF in # {}
      THEN [s EXCEPT !.mods[d] = WithCached(@, name),
                     !.mod.resolved = @ \cup {<<name, RealSymbolAddress(s.mods[d], name)>>}]
      ELSE [s EXCEPT !.ok = FALSE]

(* module_load_depends *)
DependsFound(object) == \A i \in DOMAIN object.depends : Named(mod_list, object.depends[i]) # {}
LoadDepends(object) == [i \in DOMAIN object.depends |-> GetModule(mod_list, object.depends[i])]

(* module_link_depends: the new module, once for each of its dependencies *)
LinkDepends(mods, mod, index) ==
  [i \in DOMAIN mods |->
     [mods[i] EXCEPT !.links = @ \o [k \in 1..Cardinality({j \in DOMAIN mod.depends :
                                                              mod.depends[j] = i}) |-> index]]]

(* Faulty variant of EndAddress: the end is not rounded up to a page. *)
EndAddressUnaligned(segment) == segment.vaddr + segment.memsz

(* end_addr of load_module *)
EndAddress(segment) ==
  segment.vaddr + segment.memsz + ((ModPage - (segment.vaddr + segment.memsz)) % ModPage)

(* The pages that a segment of a module at this address is mapped on *)
Area(address, segment) ==
  LET start == address + segment.vaddr
  IN  (start \div ModPage)..((start + segment.memsz - 1) \div ModPage)

(* load_module.  An object that is no dynamic ELF file is refused at once; *)
(* one without "provides" or "depends", with a dependency or a symbol      *)
(* missing or without "init" was copied already, and its address is used   *)
(* up.  The caches of other modules keep what was looked up for it.        *)
LoadModule(object) ==
  LET new == [name |-> object.provides, address |-> mod_address, depends |-> <<>>,
              links |-> <<>>, symcache |-> {}, resolved |-> {}]
      mod == [WithCached(WithCached(new, "provides"), "depends")
                EXCEPT !.depends = LoadDepends(object)]
      linked == FoldLeft(LAMBDA s, name : IF s.ok THEN LinkSymbol(s, name) ELSE s,
                         [mod |-> mod, mods |-> mod_list, ok |-> TRUE], object.relocations)
      named == {"provides", "depends"} \subseteq object.symbols
  IN  IF ~object.dynamic THEN UNCHANGED <<mod_list, mod_address, areas>>
      ELSE /\ areas' = areas \cup {[object |-> object.provides, index |-> next,
                                    area |-> UNION {Area(mod_address, object.segments[i]) :
                                                     i \in DOMAIN object.segments}]}
           /\ mod_address' = IF object.segments = <<>> THEN mod_address
                             ELSE mod_address + EndAddress(object.segments[Len(object.segments)])
           /\ IF ~named \/ ~DependsFound(object) THEN UNCHANGED mod_list
              ELSE IF ~linked.ok \/ "init" \notin object.symbols THEN mod_list' = linked.mods
              ELSE mod_list' =
                     Append(LinkDepends(linked.mods, linked.mod, Len(mod_list) + 1), linked.mod)

(* load_init_modules: one line of the table.  A file that the archive does *)
(* not list is passed over.                                                *)
LoadNext ==
  /\ next \in DOMAIN modtab /\ next' = next + 1
  /\ IF modtab[next] \in Range(headers)
     THEN LoadModule(Object[modtab[next]])
     ELSE UNCHANGED <<mod_list, mod_address, areas>>
  /\ UNCHANGED <<archive, modtab, headers>>

LoaderDone == next > Len(modtab) /\ UNCHANGED loaderVars

LoaderNext == OpenInitrd \/ LoadNext \/ LoaderDone

LoaderSpec == LoaderInit /\ [][LoaderNext]_loaderVars

-----------------------------------------------------------------------------
(* In whatever order the table names modules, some of which fail to load,  *)
(* every module in the list depends on modules that were there before it   *)
(* and has each dependency its object names; it is in the links of those   *)
(* and of no other; and no two objects that were copied, loaded or not,    *)
(* share a page.                                                           *)
ModulesWellFormed ==
  /\ \A i \in DOMAIN mod_list :
       /\ \A k \in DOMAIN mod_list[i].depends :
            /\ mod_list[i].depends[k] \in 1..(i - 1)
            /\ mod_list[mod_list[i].depends[k]].name = ObjectOf(mod_list[i]).depends[k]
       /\ Len(mod_list[i].depends) = Len(ObjectOf(mod_list[i]).depends)
       /\ \A j \in DOMAIN mod_list :
            j \in Range(mod_list[i].links) <=> i \in Range(mod_list[j].depends)
  /\ \A a, b \in areas : a # b => a.area \cap b.area = {}

(* A relocation of a loaded module has the address of the symbol in the    *)
(* first place that defines it: the module itself, then its dependencies   *)
(* in order, whatever the caches held by then.  Only names that share      *)
(* their hash with another can lead elsewhere.                             *)
SymbolsRight ==
  LET alone(name) == \A other \in DOMAIN Hash : Hash[other] = Hash[name] => other = name
  IN  \A i \in DOMAIN mod_list : \A r \in mod_list[i].resolved :
        LET places == <<i>> \o mod_list[i].depends
            in == {k \in DOMAIN places : r[1] \in ObjectOf(mod_list[places[k]]).symbols}
        IN  alone(r[1]) =>
              in # {} /\ r[2] = {SymbolAddress(mod_list[places[Min(in)]], r[1])}

(* Every file of the archive is listed, unless one before it is a single   *)
(* byte longer than a whole number of blocks.                              *)
ArchiveListed ==
  next > 0 =>
    \A i \in DOMAIN archive :
      (\A j \in 1..(i - 1) : archive[j].size % Block # 1) => archive[i].name \in Range(headers)
=============================================================================
