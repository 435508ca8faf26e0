---------------------------- MODULE GatewayProofs ----------------------------
(***************************************************************************)
(* Proofs about the registry of indexes and the gateway, for any number of *)
(* repositories, commands, processes, starts and databases that come or    *)
(* go: the registry survives every death, and routes reach their index.    *)
(***************************************************************************)
EXTENDS Gateway, FiniteSetTheorems, TLAPS

-----------------------------------------------------------------------------
(* Ports *)

Tables == UNION {[S -> [repo : Repos, config : Configs]] : S \in SUBSET Slugs}
Numberings == UNION {[S -> Nat] : S \in SUBSET Slugs}
PidSpace == Nat \X Nat

(* One port per index, without gaps from the first port on.                *)
Injective(routes) == \A s, t \in DOMAIN routes : routes[s] = routes[t] => s = t
Numbered(routes) ==
  /\ routes \in Numberings /\ Injective(routes) /\ Cardinality(DOMAIN routes) \in Nat
  /\ \A n \in Nat : n < Cardinality(DOMAIN routes) => \E s \in DOMAIN routes : routes[s] = BasePort + n

LEMMA SlugsFinite ==
  ASSUME SettingIsSound, NEW S \in SUBSET Slugs
  PROVE  IsFiniteSet(S) /\ Cardinality(S) \in Nat
<1>1. IsFiniteSet(Repos)
  BY DEF SettingIsSound
<1>2. IsFiniteSet(Slugs)
  <2> DEFINE f == [r \in Repos |-> Slug(r)]
  <2>1. f \in Surjection(Repos, Slugs)
    BY DEF Surjection, Slugs
  <2> QED
    BY <1>1, <2>1, FS_Surjection
<1> QED
  BY <1>2, FS_Subset, FS_CardinalityType

LEMMA PositionIsPlace ==
  ASSUME SettingIsSound, NEW s \in Slugs
  PROVE  Position(s) \in Nat /\ \A t \in Slugs : Position(t) = Position(s) => t = s
<1>1. \A t \in Slugs : \E i \in DOMAIN SlugOrder : SlugOrder[i] = t
  BY DEF SettingIsSound
<1>2. \A t \in Slugs : Position(t) \in DOMAIN SlugOrder /\ SlugOrder[Position(t)] = t
  BY <1>1 DEF Position
<1>3. DOMAIN SlugOrder \subseteq Nat
  BY DEF SettingIsSound
<1> QED
  BY <1>2, <1>3

(* The number of an index among those of a set.                            *)
Before(S, s) == {t \in S : Position(t) < Position(s)}
Rank(S, s) == Cardinality(Before(S, s))

LEMMA RankOrder ==
  ASSUME SettingIsSound, NEW S \in SUBSET Slugs, NEW s \in S
  PROVE  /\ Rank(S, s) \in Nat /\ Rank(S, s) < Cardinality(S)
         /\ \A t \in S : Position(s) < Position(t) => Rank(S, s) < Rank(S, t)
<1>1. \A t \in S : Position(t) \in Nat
  BY PositionIsPlace
<1>2. ASSUME NEW T \in SUBSET S, NEW x \in T, x \notin Before(S, s), Before(S, s) \subseteq T
      PROVE  Rank(S, s) \in Nat /\ Cardinality(T) \in Nat /\ Rank(S, s) < Cardinality(T)
  <2>1. Before(S, s) \in SUBSET T /\ T \in SUBSET Slugs /\ Before(S, s) \in SUBSET Slugs
    BY <1>2 DEF Before
  <2>2. IsFiniteSet(T) /\ Cardinality(T) \in Nat /\ Cardinality(Before(S, s)) \in Nat
    BY <2>1, SlugsFinite
  <2>3. /\ Cardinality(Before(S, s)) <= Cardinality(T)
        /\ Cardinality(Before(S, s)) = Cardinality(T) => Before(S, s) = T
    BY <2>1, <2>2, FS_Subset
  <2>4. Before(S, s) # T
    BY <1>2
  <2> QED
    BY <2>2, <2>3, <2>4 DEF Rank
<1>3. s \notin Before(S, s) /\ Before(S, s) \subseteq S
  BY <1>1 DEF Before
<1>4. Rank(S, s) \in Nat /\ Rank(S, s) < Cardinality(S)
  BY <1>2, <1>3
<1>5. ASSUME NEW t \in S, Position(s) < Position(t)
      PROVE  Rank(S, s) < Rank(S, t)
  <2>1. s \in Before(S, t) /\ Before(S, s) \subseteq Before(S, t) /\ Before(S, t) \in SUBSET S
    BY <1>1, <1>5 DEF Before
  <2>2. Rank(S, s) < Cardinality(Before(S, t))
    BY <1>2, <1>3, <2>1
  <2> QED
    BY <2>2 DEF Rank
<1> QED
  BY <1>4, <1>5

(* The numbers 0, 1, ... are all given, each to one index.                 *)
LEMMA RankIsOnto ==
  ASSUME SettingIsSound, NEW S \in SUBSET Slugs
  PROVE  /\ \A s, t \in S : Rank(S, s) = Rank(S, t) => s = t
         /\ \A n \in Nat : n < Cardinality(S) => \E s \in S : Rank(S, s) = n
<1> DEFINE count == Cardinality(S)
           rank == [s \in S |-> Rank(S, s) + 1]
<1>1. count \in Nat /\ IsFiniteSet(S)
  BY SlugsFinite
<1>2. \A s \in S : Rank(S, s) \in Nat /\ Rank(S, s) < count
  BY RankOrder
<1>3. \A s, t \in S : Rank(S, s) = Rank(S, t) => s = t
  <2> SUFFICES ASSUME NEW s \in S, NEW t \in S, Rank(S, s) = Rank(S, t), s # t
               PROVE  FALSE
    OBVIOUS
  <2>1. Position(s) \in Nat /\ Position(t) \in Nat /\ Position(s) # Position(t)
    BY PositionIsPlace
  <2>2. Position(s) < Position(t) \/ Position(t) < Position(s)
    BY <2>1
  <2>3. Rank(S, s) < Rank(S, t) \/ Rank(S, t) < Rank(S, s)
    BY <2>2, RankOrder
  <2> QED
    BY <1>2, <2>3
<1> HIDE DEF count
<1>4. rank \in [S -> 1..count]
  BY <1>1, <1>2
<1>5. rank \in Injection(S, 1..count)
  <2>1. \A s, t \in S : rank[s] = rank[t] => s = t
    BY <1>2, <1>3
  <2> QED
    BY <1>4, <2>1 DEF Injection, IsInjective
<1>6. IsFiniteSet(1..count) /\ Cardinality(1..count) = count
  <2>1. 1 \in Int /\ count \in Int
    BY <1>1
  <2>2. IsFiniteSet(1..count) /\ Cardinality(1..count) = IF 1 > count THEN 0 ELSE count - 1 + 1
    BY <2>1, FS_Interval
  <2> QED
    BY <1>1, <2>2
<1>7. Cardinality(S) = Cardinality(1..count)
  BY <1>6 DEF count
<1> HIDE DEF rank
<1>8. rank \in Surjection(S, 1..count)
  BY <1>1, <1>5, <1>6, <1>7, FS_Injection
<1>9. ASSUME NEW n \in Nat, n < count
      PROVE  \E s \in S : Rank(S, s) = n
  <2>1. n + 1 \in 1..count
    BY <1>1, <1>9
  <2>2. PICK s \in S : rank[s] = n + 1
    BY <1>8, <2>1 DEF Surjection
  <2>3. Rank(S, s) + 1 = n + 1 /\ Rank(S, s) \in Nat
    BY <1>2, <2>2 DEF rank
  <2> QED
    BY <2>3
<1> QED
  BY <1>3, <1>9 DEF count

(* cli_assign_backend_ports gives every ready entry a port of its own.     *)
LEMMA PortsNumbered ==
  ASSUME SettingIsSound, NEW table, dbs \subseteq Slugs
  PROVE  Numbered(Ports(table)) /\ DOMAIN Ports(table) = Ready(table)
<1> DEFINE S == Ready(table)
<1>1. S \in SUBSET Slugs
  BY DEF Ready
<1>2. BasePort \in Nat
  BY DEF SettingIsSound
<1>3. Ports(table) = [s \in S |-> BasePort + Rank(S, s)]
  BY DEF Ports, Rank, Before
<1> HIDE DEF S
<1>4. \A s \in S : Rank(S, s) \in Nat
  BY <1>1, RankOrder
<1>5. \A s, t \in S : Rank(S, s) = Rank(S, t) => s = t
  BY <1>1, RankIsOnto
<1>6. \A n \in Nat : n < Cardinality(S) => \E s \in S : Rank(S, s) = n
  BY <1>1, RankIsOnto
<1>7. DOMAIN Ports(table) = S /\ \A s \in S : Ports(table)[s] = BasePort + Rank(S, s)
  BY <1>3
<1>8. Ports(table) \in [S -> Nat]
  BY <1>2, <1>3, <1>4
<1>9. Ports(table) \in Numberings
  BY <1>1, <1>8 DEF Numberings
<1>10. Injective(Ports(table))
  BY <1>2, <1>4, <1>5, <1>7 DEF Injective
<1>11. Cardinality(S) \in Nat
  BY <1>1, SlugsFinite
<1>12. \A n \in Nat : n < Cardinality(S) => \E s \in S : Ports(table)[s] = BasePort + n
  BY <1>6, <1>7
<1> QED
  BY <1>7, <1>9, <1>10, <1>11, <1>12 DEF Numbered, S

-----------------------------------------------------------------------------
(* The registry *)

Entries == [repo : Repos, config : Configs]
Texts == [whole : BOOLEAN, length : Nat, table : Tables]
Writers ==
  [pc : {"idle", "loaded", "open", "written"}, file : Files \cup {NoFile}, op : {"none", "upsert", "remove"},
   slug : Slugs \cup {<<>>}, entry : Entries \cup {<<>>}, table : Tables]

RegistryTypeOK ==
  /\ files \in [Files -> Texts] /\ meta \in Files /\ tmp \in Files \cup {NoFile}
  /\ writer \in [Processes -> Writers] /\ serial \in BOOLEAN

(* As long as commands did not overlap, at most one of them is under way,  *)
(* which has loaded what its predecessors saved; its temporary file is its *)
(* own from the moment it opens it.                                        *)
SerialInv ==
  serial =>
    /\ Readable /\ files[meta].table = acked /\ tmp # meta
    /\ \A p, r \in Processes : writer[p].pc # "idle" /\ writer[r].pc # "idle" => p = r
    /\ \A p \in Processes : writer[p].pc # "idle" =>
         writer[p].table = Updated(acked, writer[p].op, writer[p].slug, writer[p].entry)
    /\ \A p \in Processes : writer[p].pc = "open" =>
         writer[p].file = tmp /\ tmp \in Files /\ files[tmp] = Blank
    /\ \A p \in Processes : writer[p].pc = "written" =>
         tmp \in Files /\ files[tmp] = Text(writer[p].table)

RegistryInv == RegistryTypeOK /\ SerialInv

LEMMA EmptyTable ==
  /\ <<>> \in Tables /\ <<>> \in Numberings /\ DOMAIN <<>> = {}
<1>1. <<>> = [s \in {} |-> 0]
  OBVIOUS
<1>2. <<>> \in [{} -> Entries] /\ <<>> \in [{} -> Nat]
  BY <1>1
<1> QED
  BY <1>1, <1>2 DEF Tables, Numberings, Entries

(* A table can be counted, and saved as a text.                            *)
LEMMA TextType ==
  ASSUME SettingIsSound, NEW table \in Tables
  PROVE  /\ Text(table) \in Texts /\ Text(table).whole /\ Text(table).table = table
         /\ Text(table).length >= 0
<1>1. Cardinality(DOMAIN table) \in Nat
  <2>1. PICK S \in SUBSET Slugs : table \in [S -> Entries]
    BY DEF Tables, Entries
  <2>2. DOMAIN table = S
    BY <2>1
  <2> QED
    BY <2>2, SlugsFinite
<1> QED
  BY <1>1 DEF Text, Texts

LEMMA BlankType == Blank \in Texts /\ \A n \in Nat : Torn(n) \in Texts
BY EmptyTable DEF Blank, Torn, Texts

LEMMA UpdatedType ==
  ASSUME NEW table \in Tables, NEW op \in {"upsert", "remove"}, NEW slug \in Slugs,
         NEW entry, op = "upsert" => entry \in Entries
  PROVE  Updated(table, op, slug, entry) \in Tables
<1>1. PICK S \in SUBSET Slugs : table \in [S -> Entries]
  BY DEF Tables, Entries
<1>2. CASE op = "upsert"
  <2>1. Updated(table, op, slug, entry) = [x \in S \cup {slug} |-> IF x = slug THEN entry ELSE table[x]]
    BY <1>1, <1>2 DEF Updated
  <2>2. Updated(table, op, slug, entry) \in [S \cup {slug} -> Entries]
    BY <1>1, <1>2, <2>1
  <2> QED
    BY <2>2 DEF Tables, Entries
<1>3. CASE op = "remove"
  <2>1. Updated(table, op, slug, entry) = [x \in S \ {slug} |-> table[x]]
    BY <1>1, <1>3 DEF Updated, Restrict
  <2>2. Updated(table, op, slug, entry) \in [S \ {slug} -> Entries]
    BY <1>1, <2>1
  <2> QED
    BY <2>2 DEF Tables, Entries
<1> QED
  BY <1>2, <1>3

(* There is a file for a command that finds no temporary one.              *)
LEMMA FreeExists ==
  ASSUME SettingIsSound, RegistryTypeOK, tmp = NoFile
  PROVE  Free \in Files /\ Free # meta /\ Free # tmp
<1> DEFINE held == {writer[p].file : p \in Processes}
           count == Cardinality(Processes)
<1>1. IsFiniteSet(Processes) /\ count \in Nat
  BY FS_CardinalityType DEF SettingIsSound
<1>2. IsFiniteSet(held) /\ Cardinality(held) \in Nat /\ Cardinality(held) <= count
  <2> DEFINE f == [p \in Processes |-> writer[p].file]
  <2>1. f \in Surjection(Processes, held)
    BY DEF Surjection
  <2> QED
    BY <1>1, <2>1, FS_Surjection, FS_CardinalityType
<1> HIDE DEF held, count
<1>3. IsFiniteSet(held \cup {meta}) /\ Cardinality(held \cup {meta}) <= count + 1
  BY <1>1, <1>2, FS_AddElement
<1>4. IsFiniteSet(Files) /\ Cardinality(Files) = count + 2
  <2>1. 1 \in Int /\ count + 2 \in Int
    BY <1>1
  <2>2. IsFiniteSet(1..(count + 2))
        /\ Cardinality(1..(count + 2)) = IF 1 > count + 2 THEN 0 ELSE (count + 2) - 1 + 1
    BY <2>1, FS_Interval
  <2>3. Files = 1..(count + 2)
    BY DEF Files, count
  <2> QED
    BY <1>1, <2>2, <2>3
<1>5. \E f \in Files : f \notin held \cup {meta}
  <2> SUFFICES ASSUME Files \subseteq held \cup {meta} PROVE FALSE
    OBVIOUS
  <2>1. Cardinality(Files) <= Cardinality(held \cup {meta})
    BY <1>3, FS_Subset
  <2>2. Cardinality(held \cup {meta}) \in Nat
    BY <1>3, FS_CardinalityType
  <2> QED
    BY <1>1, <1>3, <1>4, <2>1, <2>2
<1>6. \E f \in Files : f \notin {meta, tmp} \cup held
  <2>1. NoFile \notin Files
    BY <1>1 DEF NoFile, Files, count
  <2> QED
    BY <1>5, <2>1
<1>7. Free = CHOOSE f \in Files : f \notin {meta, tmp} \cup held
  BY DEF Free, held
<1> QED
  BY <1>6, <1>7

LEMMA RegistryInit ==
  ASSUME SettingIsSound, GatewayInit
  PROVE  RegistryInv
<1>1. /\ files = [f \in Files |-> Text(<<>>)] /\ meta = 1 /\ tmp = NoFile /\ acked = <<>> /\ serial = TRUE
      /\ writer = [p \in Processes |-> Resting]
  BY DEF GatewayInit
<1>2. Text(<<>>) \in Texts /\ Text(<<>>).whole /\ Text(<<>>).table = <<>>
  BY EmptyTable, TextType
<1>3. 1 \in Files /\ NoFile # 1
  <2>1. Cardinality(Processes) \in Nat
    BY FS_CardinalityType DEF SettingIsSound
  <2> QED
    BY <2>1 DEF Files, NoFile
<1>4. Resting \in Writers /\ Resting.pc = "idle"
  BY EmptyTable DEF Resting, Writers
<1>5. RegistryTypeOK
  BY <1>1, <1>2, <1>3, <1>4, EmptyTable DEF RegistryTypeOK
<1>6. SerialInv
  BY <1>1, <1>2, <1>3, <1>4 DEF SerialInv, Readable
<1> QED
  BY <1>5, <1>6 DEF RegistryInv

(* A command loads the table it changes.                                   *)
LEMMA LoadsKeepsRegistry ==
  ASSUME SettingIsSound, RegistryInv, NEW p \in Processes, NEW op \in {"upsert", "remove"},
         NEW slug \in Slugs, NEW entry \in Entries \cup {<<>>}, op = "upsert" => entry \in Entries,
         Loads(p, op, slug, entry)
  PROVE  RegistryInv'
<1> DEFINE new == [pc |-> "loaded", file |-> NoFile, op |-> op, slug |-> slug, entry |-> entry,
                   table |-> Updated(files[meta].table, op, slug, entry)]
<1>1. /\ writer[p].pc = "idle" /\ writer' = [writer EXCEPT ![p] = new]
      /\ serial' = (serial /\ \A r \in Processes : writer[r].pc = "idle")
      /\ UNCHANGED <<files, meta, tmp, acked>>
  BY DEF Loads
<1>2. /\ files \in [Files -> Texts] /\ meta \in Files /\ tmp \in Files \cup {NoFile}
      /\ writer \in [Processes -> Writers] /\ serial \in BOOLEAN
  BY DEF RegistryInv, RegistryTypeOK
<1>3. Updated(files[meta].table, op, slug, entry) \in Tables
  <2>1. files[meta].table \in Tables
    BY <1>2 DEF Texts
  <2> QED
    BY <2>1, UpdatedType
<1>4. new \in Writers /\ new.pc = "loaded"
  BY <1>3 DEF Writers
<1>5. RegistryTypeOK'
  BY <1>1, <1>2, <1>4 DEF RegistryTypeOK
<1>6. SerialInv'
  <2> SUFFICES ASSUME serial' PROVE SerialInv'
    BY DEF SerialInv
  <2>1. serial /\ \A r \in Processes : writer[r].pc = "idle"
    BY <1>1
  <2>2. Readable /\ files[meta].table = acked /\ tmp # meta
    BY <2>1 DEF RegistryInv, SerialInv
  <2>3. writer'[p] = new /\ \A r \in Processes : r # p => writer'[r].pc = "idle"
    BY <1>1, <1>2, <2>1
  <2>4. new.table = Updated(acked, new.op, new.slug, new.entry)
    BY <2>2
  <2> HIDE DEF new
  <2>5. \A r \in Processes : writer'[r].pc # "idle" => r = p
    BY <2>3
  <2>6. \A r \in Processes : writer'[r].pc # "idle" =>
          writer'[r].table = Updated(acked', writer'[r].op, writer'[r].slug, writer'[r].entry)
    BY <1>1, <2>3, <2>4, <2>5
  <2>7. \A r \in Processes : writer'[r].pc \notin {"open", "written"}
    BY <1>4, <2>3
  <2> QED
    BY <1>1, <2>2, <2>5, <2>6, <2>7 DEF SerialInv, Readable
<1> QED
  BY <1>5, <1>6 DEF RegistryInv

(* What a step of the only command under way finds.                        *)
LEMMA OnlyCommand ==
  ASSUME RegistryInv, serial, NEW p \in Processes, writer[p].pc # "idle"
  PROVE  /\ Readable /\ files[meta].table = acked /\ tmp # meta
         /\ \A r \in Processes : r # p => writer[r].pc = "idle"
         /\ writer[p].table = Updated(acked, writer[p].op, writer[p].slug, writer[p].entry)
BY DEF RegistryInv, SerialInv

(* The temporary file is opened: it is not the registry, and it is empty.  *)
LEMMA OpenKeepsRegistry ==
  ASSUME SettingIsSound, RegistryInv, NEW p \in Processes, Open(p)
  PROVE  RegistryInv'
<1> DEFINE file == IF tmp = NoFile THEN Free ELSE tmp
<1>1. /\ writer[p].pc = "loaded" /\ files' = [files EXCEPT ![file] = Blank]
      /\ writer' = [writer EXCEPT ![p].pc = "open", ![p].file = file]
      /\ tmp' = file /\ UNCHANGED <<meta, acked, serial>>
  BY DEF Open
<1>2. /\ files \in [Files -> Texts] /\ meta \in Files /\ tmp \in Files \cup {NoFile}
      /\ writer \in [Processes -> Writers] /\ serial \in BOOLEAN
  BY DEF RegistryInv, RegistryTypeOK
<1>3. file \in Files /\ (tmp # meta => file # meta)
  BY <1>2, FreeExists DEF RegistryInv
<1> HIDE DEF file
<1>4. /\ writer'[p] \in Writers /\ writer'[p].pc = "open" /\ writer'[p].file = file
      /\ writer'[p].op = writer[p].op /\ writer'[p].slug = writer[p].slug
      /\ writer'[p].entry = writer[p].entry /\ writer'[p].table = writer[p].table
      /\ writer' \in [Processes -> Writers]
      /\ \A r \in Processes : r # p => writer'[r] = writer[r]
  BY <1>1, <1>2, <1>3 DEF Writers
<1>5. RegistryTypeOK'
  BY <1>1, <1>2, <1>3, <1>4, BlankType DEF RegistryTypeOK
<1>6. SerialInv'
  <2> SUFFICES ASSUME serial PROVE SerialInv'
    BY <1>1 DEF SerialInv
  <2>1. /\ Readable /\ files[meta].table = acked /\ tmp # meta
        /\ \A r \in Processes : r # p => writer[r].pc = "idle"
        /\ writer[p].table = Updated(acked, writer[p].op, writer[p].slug, writer[p].entry)
    BY <1>1, OnlyCommand
  <2>2. \A r \in Processes : writer'[r].pc # "idle" => r = p
    BY <1>4, <2>1
  <2>3. files'[meta] = files[meta] /\ files'[tmp'] = Blank
    BY <1>1, <1>2, <1>3, <2>1
  <2>4. Readable' /\ files'[meta'].table = acked' /\ tmp' # meta'
    BY <1>1, <1>3, <2>1, <2>3 DEF Readable
  <2>5. \A r \in Processes : writer'[r].pc # "idle" =>
          writer'[r].table = Updated(acked', writer'[r].op, writer'[r].slug, writer'[r].entry)
    BY <1>1, <1>4, <2>1, <2>2
  <2>6. \A r \in Processes : writer'[r].pc = "open" =>
          writer'[r].file = tmp' /\ tmp' \in Files /\ files'[tmp'] = Blank
    BY <1>1, <1>3, <1>4, <2>2, <2>3
  <2>7. \A r \in Processes : writer'[r].pc # "written"
    BY <1>4, <2>2
  <2> QED
    BY <2>2, <2>4, <2>5, <2>6, <2>7 DEF SerialInv
<1> QED
  BY <1>5, <1>6 DEF RegistryInv

(* The text is written into the file that was opened: as a whole when that *)
(* is still empty, and maybe over another one's when commands overlap.     *)
LEMMA WriteKeepsRegistry ==
  ASSUME SettingIsSound, RegistryInv, NEW p \in Processes, WriteText(p)
  PROVE  RegistryInv'
<1> DEFINE new == Text(writer[p].table)
           old == files[writer[p].file]
<1>1. /\ writer[p].pc = "open"
      /\ files' = [files EXCEPT ![writer[p].file] = IF new.length >= old.length THEN new ELSE Torn(old.length)]
      /\ writer' = [writer EXCEPT ![p].pc = "written", ![p].file = NoFile]
      /\ UNCHANGED <<meta, tmp, acked, serial>>
  BY DEF WriteText
<1>2. /\ files \in [Files -> Texts] /\ meta \in Files /\ tmp \in Files \cup {NoFile}
      /\ writer \in [Processes -> Writers] /\ serial \in BOOLEAN
  BY DEF RegistryInv, RegistryTypeOK
<1>3. new \in Texts /\ new.length >= 0
  <2>1. writer[p].table \in Tables
    BY <1>2 DEF Writers
  <2> QED
    BY <2>1, TextType
<1>4. /\ writer'[p].pc = "written"
      /\ writer'[p].op = writer[p].op /\ writer'[p].slug = writer[p].slug
      /\ writer'[p].entry = writer[p].entry /\ writer'[p].table = writer[p].table
      /\ writer' \in [Processes -> Writers]
      /\ \A r \in Processes : r # p => writer'[r] = writer[r]
  BY <1>1, <1>2, ZenonT(30) DEF Writers
<1> HIDE DEF new
<1>5. files' \in [Files -> Texts]
  <2>1. CASE writer[p].file \in Files
    <3>1. old \in Texts
      BY <1>2, <2>1
    <3>2. Torn(old.length) \in Texts
      BY <3>1, BlankType DEF Texts
    <3> QED
      BY <1>1, <1>2, <1>3, <3>2
  <2>2. CASE writer[p].file \notin Files
    BY <1>1, <1>2, <2>2
  <2> QED
    BY <2>1, <2>2
<1>6. RegistryTypeOK'
  BY <1>1, <1>2, <1>4, <1>5 DEF RegistryTypeOK
<1>7. SerialInv'
  <2> SUFFICES ASSUME serial PROVE SerialInv'
    BY <1>1 DEF SerialInv
  <2>1. /\ Readable /\ files[meta].table = acked /\ tmp # meta
        /\ \A r \in Processes : r # p => writer[r].pc = "idle"
        /\ writer[p].table = Updated(acked, writer[p].op, writer[p].slug, writer[p].entry)
    BY <1>1, OnlyCommand
  <2>2. writer[p].file = tmp /\ tmp \in Files /\ files[tmp] = Blank
    BY <1>1 DEF RegistryInv, SerialInv
  <2>3. old.length = 0
    BY <2>2 DEF Blank
  <2>4. files' = [files EXCEPT ![tmp] = new]
    BY <1>1, <1>3, <2>2, <2>3
  <2>5. files'[meta] = files[meta] /\ files'[tmp] = new
    BY <1>2, <2>1, <2>2, <2>4
  <2>6. \A r \in Processes : writer'[r].pc # "idle" => r = p
    BY <1>4, <2>1
  <2>7. Readable' /\ files'[meta'].table = acked' /\ tmp' # meta'
    BY <1>1, <2>1, <2>5 DEF Readable
  <2>8. \A r \in Processes : writer'[r].pc # "idle" =>
          writer'[r].table = Updated(acked', writer'[r].op, writer'[r].slug, writer'[r].entry)
    BY <1>1, <1>4, <2>1, <2>6
  <2>9. \A r \in Processes : writer'[r].pc = "written" =>
          tmp' \in Files /\ files'[tmp'] = Text(writer'[r].table)
    BY <1>1, <1>4, <2>2, <2>5, <2>6 DEF new
  <2>10. \A r \in Processes : writer'[r].pc # "open"
    BY <1>4, <2>6
  <2> QED
    BY <2>6, <2>7, <2>8, <2>9, <2>10 DEF SerialInv
<1> QED
  BY <1>6, <1>7 DEF RegistryInv

(* The temporary file becomes the registry: what the command had to save.  *)
LEMMA RenameKeepsRegistry ==
  ASSUME SettingIsSound, RegistryInv, NEW p \in Processes, Rename(p)
  PROVE  RegistryInv'
<1>1. /\ writer[p].pc = "written" /\ writer' = [writer EXCEPT ![p] = Resting]
      /\ \/ tmp = NoFile /\ UNCHANGED <<meta, tmp, acked>>
         \/ /\ tmp # NoFile /\ meta' = tmp /\ tmp' = NoFile
            /\ acked' = Updated(acked, writer[p].op, writer[p].slug, writer[p].entry)
      /\ UNCHANGED <<files, serial>>
  BY DEF Rename
<1>2. /\ files \in [Files -> Texts] /\ meta \in Files /\ tmp \in Files \cup {NoFile}
      /\ writer \in [Processes -> Writers] /\ serial \in BOOLEAN
  BY DEF RegistryInv, RegistryTypeOK
<1>3. /\ writer' \in [Processes -> Writers] /\ writer'[p].pc = "idle"
      /\ \A r \in Processes : r # p => writer'[r] = writer[r]
  BY <1>1, <1>2, EmptyTable DEF Resting, Writers
<1>4. RegistryTypeOK'
  BY <1>1, <1>2, <1>3 DEF RegistryTypeOK
<1>5. SerialInv'
  <2> SUFFICES ASSUME serial PROVE SerialInv'
    BY <1>1 DEF SerialInv
  <2>1. /\ Readable /\ files[meta].table = acked /\ tmp # meta
        /\ \A r \in Processes : r # p => writer[r].pc = "idle"
        /\ writer[p].table = Updated(acked, writer[p].op, writer[p].slug, writer[p].entry)
    BY <1>1, OnlyCommand
  <2>2. tmp \in Files /\ files[tmp] = Text(writer[p].table)
    BY <1>1 DEF RegistryInv, SerialInv
  <2>3. Text(writer[p].table).whole /\ Text(writer[p].table).table = writer[p].table
    BY DEF Text
  <2>4. \A r \in Processes : writer'[r].pc = "idle"
    BY <1>3, <2>1
  <2>5. Readable' /\ files'[meta'].table = acked' /\ tmp' # meta'
    BY <1>1, <1>2, <2>1, <2>2, <2>3 DEF Readable
  <2> QED
    BY <2>4, <2>5 DEF SerialInv
<1> QED
  BY <1>4, <1>5 DEF RegistryInv

(* A death leaves the registry, and maybe a temporary file.                *)
LEMMA DieKeepsRegistry ==
  ASSUME RegistryInv, NEW p \in Processes, Die(p)
  PROVE  RegistryInv'
<1>1. writer' = [writer EXCEPT ![p] = Resting] /\ UNCHANGED <<files, meta, tmp, acked, serial>>
  BY DEF Die
<1>2. /\ files \in [Files -> Texts] /\ meta \in Files /\ tmp \in Files \cup {NoFile}
      /\ writer \in [Processes -> Writers] /\ serial \in BOOLEAN
  BY DEF RegistryInv, RegistryTypeOK
<1>3. /\ writer' \in [Processes -> Writers] /\ writer'[p].pc = "idle"
      /\ \A r \in Processes : r # p => writer'[r] = writer[r]
  BY <1>1, <1>2, EmptyTable DEF Resting, Writers
<1>4. RegistryTypeOK'
  BY <1>1, <1>2, <1>3 DEF RegistryTypeOK
<1>5. SerialInv'
  BY <1>1, <1>3 DEF RegistryInv, SerialInv, Readable
<1> QED
  BY <1>4, <1>5 DEF RegistryInv

LEMMA RegistryNext ==
  ASSUME SettingIsSound, RegistryInv, [GatewayNext]_gatewayVars
  PROVE  RegistryInv'
<1>1. CASE UNCHANGED registryVars
  BY <1>1 DEF registryVars, RegistryInv, RegistryTypeOK, SerialInv, Readable
<1>2. ASSUME NEW p \in Processes, NEW repo \in Repos, NEW config \in Configs, Upsert(p, repo, config)
      PROVE  RegistryInv'
  <2>1. Slug(repo) \in Slugs /\ [repo |-> repo, config |-> config] \in Entries
    BY DEF Slugs, Entries
  <2> QED
    BY <1>2, <2>1, LoadsKeepsRegistry DEF Upsert
<1>3. ASSUME NEW p \in Processes, NEW slug \in Slugs, RemoveEntry(p, slug)
      PROVE  RegistryInv'
  BY <1>3, LoadsKeepsRegistry DEF RemoveEntry
<1>4. ASSUME NEW p \in Processes, Open(p) \/ WriteText(p) \/ Rename(p) \/ Die(p)
      PROVE  RegistryInv'
  BY <1>4, OpenKeepsRegistry, WriteKeepsRegistry, RenameKeepsRegistry, DieKeepsRegistry
<1>5. \/ UNCHANGED registryVars
      \/ \E p \in Processes :
           \/ \E repo \in Repos, config \in Configs : Upsert(p, repo, config)
           \/ \E slug \in Slugs : RemoveEntry(p, slug)
           \/ Open(p) \/ WriteText(p) \/ Rename(p) \/ Die(p)
  BY DEF GatewayNext, gatewayVars, DatabaseChanges, Stop, Render, Spawn, WritePids, FreePort, RunNginx, Load, Bind, Exit
<1> QED
  BY <1>1, <1>2, <1>3, <1>4, <1>5

(* However many commands change the registry one after the other, and      *)
(* wherever some of them die, it can be read and has exactly what the      *)
(* commands that succeeded have put there (RegistryIsWhole).               *)
THEOREM RegistryStaysWhole == GatewaySpec => []RegistryIsWhole
<1>1. GatewayInit => RegistryInv
  BY RegistryInit, SettingAssumption
<1>2. RegistryInv /\ [GatewayNext]_gatewayVars => RegistryInv'
  BY RegistryNext, SettingAssumption
<1>3. RegistryInv => RegistryIsWhole
  BY DEF RegistryInv, SerialInv, RegistryIsWhole
<1> QED
  BY <1>1, <1>2, <1>3, PTL DEF GatewaySpec

-----------------------------------------------------------------------------
(* The gateway *)

Steps == {"idle", "loaded", "spawning", "listening", "freed"}
Starts ==
  [pc : Steps, table : Tables, pairs : Numberings, conf : Numberings, stopFirst : BOOLEAN,
   pids : SUBSET PidSpace, steady : BOOLEAN]
BackendSpace == [pid : PidSpace, slug : Slugs, port : Nat, bound : BOOLEAN, dying : BOOLEAN]

GatewayTypeOK ==
  /\ dbs \subseteq Slugs /\ left \in [commands : Nat, starts : Nat, changes : Nat]
  /\ start \in Starts /\ IsFiniteSet(start.pids)
  /\ backends \subseteq BackendSpace /\ pidFile \subseteq PidSpace
  /\ nginx \in Numberings /\ steady \in BOOLEAN

(* A backend has the port that is given to its index.                      *)
OnPort(b, routes) == b.slug \in DOMAIN routes /\ b.port = routes[b.slug]

(* Process numbers tell the starts apart.                                  *)
PidInv ==
  /\ \A b \in backends : b.pid[1] >= left.starts
  /\ start.pc = "loaded" => \A b \in backends : b.pid[1] > left.starts
  /\ start.pc = "idle" => \A x \in pidFile : x[1] >= left.starts
  /\ start.pc \in {"loaded", "spawning"} => \A x \in pidFile : x[1] > left.starts
  /\ start.pc \in {"listening", "freed"} => pidFile = start.pids
  /\ \A x \in start.pids : x[1] = left.starts

(* A start numbers its backends and, unless databases change in between,   *)
(* its routes alike.                                                       *)
StartInv ==
  /\ start.pc # "idle" => Numbered(start.pairs)
  /\ start.pc = "loaded" /\ start.steady => start.pairs = Ports(start.table)
  /\ start.pc \in {"spawning", "listening", "freed"} =>
       /\ Injective(start.conf)
       /\ start.steady => start.conf = start.pairs
       /\ \A b \in backends : b.pid[1] = left.starts => OnPort(b, start.pairs)

(* As long as no start has got past its backends, those of the running     *)
(* gateway are on the ports that its nginx sends requests to.              *)
RouteInv ==
  /\ Injective(nginx)
  /\ start.pc \in {"idle", "loaded", "spawning"} /\ steady /\ DOMAIN nginx # {} =>
       \A b \in backends : b.pid \in pidFile /\ ~b.dying => OnPort(b, nginx)

GatewayInv == GatewayTypeOK /\ PidInv /\ StartInv /\ RouteInv

LEMMA GatewayInvInit ==
  ASSUME SettingIsSound, GatewayInit
  PROVE  GatewayInv
<1>1. /\ dbs = Slugs /\ left \in Budgets /\ start = NotStarting
      /\ backends = {} /\ pidFile = {} /\ nginx = <<>> /\ steady = TRUE
  BY DEF GatewayInit
<1>2. left \in [commands : Nat, starts : Nat, changes : Nat]
  BY <1>1 DEF SettingIsSound
<1>3. start \in Starts /\ start.pc = "idle" /\ start.pids = {}
  BY <1>1, EmptyTable DEF NotStarting, Starts, Steps
<1>4. GatewayTypeOK
  BY <1>1, <1>2, <1>3, EmptyTable, FS_EmptySet DEF GatewayTypeOK
<1>5. PidInv /\ StartInv /\ RouteInv
  BY <1>1, <1>3, EmptyTable DEF PidInv, StartInv, RouteInv, Injective
<1> QED
  BY <1>4, <1>5 DEF GatewayInv

(* The registry is another matter: what the gateway reads of it is a table *)
(* of entries.                                                             *)
LEMMA RegistryKeepsGateway ==
  ASSUME SettingIsSound, GatewayInv, UNCHANGED <<runningVars, left.starts, left.changes>>,
         left' \in [commands : Nat, starts : Nat, changes : Nat]
  PROVE  GatewayInv'
<1>1. UNCHANGED <<dbs, start, backends, pidFile, nginx, steady>> /\ left'.starts = left.starts
  BY DEF runningVars
<1> QED
  BY <1>1 DEF GatewayInv, GatewayTypeOK, PidInv, StartInv, RouteInv, Ports, Ready

(* gateway stop.                                                           *)
LEMMA SignalledBackends ==
  ASSUME backends \subseteq BackendSpace, NEW pids
  PROVE  /\ Signalled(pids) \subseteq BackendSpace
         /\ \A b \in Signalled(pids) :
              \E c \in backends :
                /\ b.pid = c.pid /\ b.slug = c.slug /\ b.port = c.port /\ b.bound = c.bound
                /\ c.dying \/ c.pid \in pids => b.dying
                /\ c.dying => b.dying
BY DEF Signalled, BackendSpace

(* What stays true of backends that stop, die or listen, with fewer of     *)
(* them in the file and routes that stay or go.                            *)
LEMMA FewerKeepGateway ==
  ASSUME GatewayInv, backends' \subseteq BackendSpace,
         \A b \in backends' : \E c \in backends :
           b.pid = c.pid /\ b.slug = c.slug /\ b.port = c.port /\ (c.dying => b.dying),
         start' = start, start.pc # "freed" /\ start.pc # "listening" => pidFile' \in {pidFile, {}},
         start.pc \in {"freed", "listening"} => pidFile' = pidFile,
         nginx' \in {nginx, <<>>}, UNCHANGED <<dbs, left, steady>>
  PROVE  GatewayInv'
<1>1. GatewayTypeOK'
  BY EmptyTable DEF GatewayInv, GatewayTypeOK
<1>2. PidInv'
  BY DEF GatewayInv, GatewayTypeOK, PidInv, Starts, Steps
<1>3. StartInv'
  BY DEF GatewayInv, StartInv, OnPort, Ports, Ready
<1>4. RouteInv'
  <2>1. Injective(nginx')
    BY EmptyTable DEF GatewayInv, RouteInv, Injective
  <2>2. ASSUME start.pc \in {"idle", "loaded", "spawning"}, steady, DOMAIN nginx' # {},
               NEW b \in backends', b.pid \in pidFile', ~b.dying
        PROVE  OnPort(b, nginx')
    <3>1. nginx' = nginx /\ DOMAIN nginx # {}
      BY <2>2, EmptyTable
    <3>2. PICK c \in backends : b.pid = c.pid /\ b.slug = c.slug /\ b.port = c.port /\ (c.dying => b.dying)
      OBVIOUS
    <3>3. c.pid \in pidFile /\ ~c.dying
      BY <2>2, <3>2
    <3>4. OnPort(c, nginx)
      BY <2>2, <3>1, <3>3 DEF GatewayInv, RouteInv
    <3> QED
      BY <3>1, <3>2, <3>4 DEF OnPort
  <2> QED
    BY <2>1, <2>2 DEF RouteInv
<1> QED
  BY <1>1, <1>2, <1>3, <1>4 DEF GatewayInv

LEMMA StopKeepsGateway ==
  ASSUME GatewayInv, Stop
  PROVE  GatewayInv'
<1>1. backends \subseteq BackendSpace
  BY DEF GatewayInv, GatewayTypeOK
<1>2. /\ start.pc = "idle" /\ backends' = Signalled(pidFile) /\ pidFile' = {} /\ nginx' = <<>>
      /\ UNCHANGED <<dbs, start, steady, left>>
  BY DEF Stop, StopGateway
<1>3. /\ backends' \subseteq BackendSpace
      /\ \A b \in backends' : \E c \in backends :
           b.pid = c.pid /\ b.slug = c.slug /\ b.port = c.port /\ (c.dying => b.dying)
  BY <1>1, <1>2, SignalledBackends
<1> QED
  BY <1>2, <1>3, FewerKeepGateway

LEMMA BackendsKeepGateway ==
  ASSUME GatewayInv, NEW b \in backends, Bind(b) \/ Exit(b)
  PROVE  GatewayInv'
<1>1. backends \subseteq BackendSpace
  BY DEF GatewayInv, GatewayTypeOK
<1>2. /\ backends' \in {backends \ {b}, (backends \ {b}) \cup {[b EXCEPT !.bound = TRUE]}}
      /\ UNCHANGED <<dbs, start, pidFile, nginx, steady, left>>
  BY DEF Bind, Exit
<1>3. /\ backends' \subseteq BackendSpace
      /\ \A x \in backends' : \E c \in backends :
           x.pid = c.pid /\ x.slug = c.slug /\ x.port = c.port /\ (c.dying => x.dying)
  BY <1>1, <1>2 DEF BackendSpace
<1> QED
  BY <1>2, <1>3, FewerKeepGateway

(* An nginx of before may be gone.                                         *)
LEMMA FreePortKeepsGateway ==
  ASSUME GatewayInv, FreePort
  PROVE  GatewayInv'
<1>1. /\ start.pc = "listening" /\ start' = [start EXCEPT !.pc = "freed"]
      /\ nginx' \in {nginx, <<>>}
      /\ UNCHANGED <<dbs, backends, pidFile, steady, left>>
  BY DEF FreePort
<1>2. start' \in Starts /\ start'.pc = "freed" /\ start'.pids = start.pids /\ start'.pairs = start.pairs
      /\ start'.conf = start.conf /\ start'.steady = start.steady
  BY <1>1 DEF GatewayInv, GatewayTypeOK, Starts, Steps
<1>3. GatewayTypeOK'
  BY <1>1, <1>2, EmptyTable DEF GatewayInv, GatewayTypeOK
<1>4. PidInv' /\ StartInv'
  BY <1>1, <1>2 DEF GatewayInv, PidInv, StartInv
<1>5. RouteInv'
  BY <1>1, <1>2, EmptyTable DEF GatewayInv, RouteInv, Injective
<1> QED
  BY <1>3, <1>4, <1>5 DEF GatewayInv

(* A database that comes or goes between the numbering of the backends and *)
(* that of the routes is remembered.                                       *)
LEMMA DatabaseKeepsGateway ==
  ASSUME GatewayInv, NEW slug \in Slugs, DatabaseChanges(slug)
  PROVE  GatewayInv'
<1>1. /\ left.changes > 0 /\ left' = [left EXCEPT !.changes = @ - 1]
      /\ dbs' = IF slug \in dbs THEN dbs \ {slug} ELSE dbs \cup {slug}
      /\ start' = [start EXCEPT !.steady = @ /\ start.pc # "loaded"]
      /\ UNCHANGED <<backends, pidFile, nginx, steady>>
  BY DEF DatabaseChanges
<1>2. left \in [commands : Nat, starts : Nat, changes : Nat] /\ start \in Starts /\ dbs \subseteq Slugs
  BY DEF GatewayInv, GatewayTypeOK
<1>3. left' \in [commands : Nat, starts : Nat, changes : Nat] /\ left'.starts = left.starts
  BY <1>1, <1>2
<1>4. /\ start' \in Starts /\ start'.pc = start.pc /\ start'.pids = start.pids
      /\ start'.pairs = start.pairs /\ start'.conf = start.conf /\ start'.table = start.table
      /\ start'.steady => start.steady /\ start.pc # "loaded"
  BY <1>1, <1>2 DEF Starts
<1>5. GatewayTypeOK'
  BY <1>1, <1>2, <1>3, <1>4 DEF GatewayInv, GatewayTypeOK
<1>6. PidInv' /\ RouteInv'
  BY <1>1, <1>3, <1>4 DEF GatewayInv, PidInv, RouteInv
<1>7. StartInv'
  BY <1>1, <1>3, <1>4 DEF GatewayInv, StartInv
<1> QED
  BY <1>5, <1>6, <1>7 DEF GatewayInv

(* A start reads the registry and numbers the backends.                    *)
LEMMA LoadKeepsGateway ==
  ASSUME SettingIsSound, RegistryInv, GatewayInv, NEW stopFirst \in BOOLEAN, Load(stopFirst)
  PROVE  GatewayInv'
<1> DEFINE table == files[meta].table
<1>1. /\ start.pc = "idle" /\ left.starts > 0
      /\ start' = [NotStarting EXCEPT !.pc = "loaded", !.table = table,
                                      !.pairs = Ports(table), !.stopFirst = stopFirst]
      /\ left' = [left EXCEPT !.starts = @ - 1]
      /\ UNCHANGED <<dbs, backends, pidFile, nginx, steady>>
  BY DEF Load
<1>2. table \in Tables
  BY DEF RegistryInv, RegistryTypeOK, Texts
<1>3. Numbered(Ports(table)) /\ Ports(table) \in Numberings
  BY PortsNumbered DEF GatewayInv, GatewayTypeOK, Numbered
<1> HIDE DEF table
<1>4. /\ start' \in Starts /\ start'.pc = "loaded" /\ start'.pids = {}
      /\ start'.table = table /\ start'.pairs = Ports(table)
  BY <1>1, <1>2, <1>3, EmptyTable DEF NotStarting, Starts, Steps
<1>5. /\ left' \in [commands : Nat, starts : Nat, changes : Nat]
      /\ left.starts \in Nat /\ left'.starts = left.starts - 1
  BY <1>1 DEF GatewayInv, GatewayTypeOK
<1>6. GatewayTypeOK'
  BY <1>1, <1>4, <1>5, FS_EmptySet DEF GatewayInv, GatewayTypeOK
<1>7. PidInv'
  <2>1. \A b \in backends : b.pid[1] \in Nat /\ b.pid[1] >= left.starts
    BY DEF GatewayInv, GatewayTypeOK, BackendSpace, PidSpace, PidInv
  <2>2. \A x \in pidFile : x[1] \in Nat /\ x[1] >= left.starts
    BY <1>1 DEF GatewayInv, GatewayTypeOK, PidSpace, PidInv
  <2>3. \A b \in backends : b.pid[1] > left'.starts /\ b.pid[1] >= left'.starts
    BY <1>5, <2>1
  <2>4. \A x \in pidFile : x[1] > left'.starts
    BY <1>5, <2>2
  <2> QED
    BY <1>1, <1>4, <2>3, <2>4 DEF PidInv
<1>8. StartInv'
  <2>1. start'.pairs = Ports(start.table)'
    BY <1>1, <1>4 DEF Ports, Ready
  <2> QED
    BY <1>3, <1>4, <2>1 DEF StartInv, Numbered
<1>9. RouteInv'
  BY <1>1, <1>4 DEF GatewayInv, RouteInv
<1> QED
  BY <1>6, <1>7, <1>8, <1>9 DEF GatewayInv

(* The routes are numbered, and the gateway of before is stopped or not.   *)
LEMMA RenderKeepsGateway ==
  ASSUME SettingIsSound, GatewayInv, Render
  PROVE  GatewayInv'
<1>1. /\ start.pc = "loaded" /\ start' = [start EXCEPT !.pc = "spawning", !.conf = Routes(start.table)]
      /\ \/ start.stopFirst /\ backends' = Signalled(pidFile) /\ pidFile' = {} /\ nginx' = <<>>
         \/ UNCHANGED <<backends, pidFile, nginx>>
      /\ UNCHANGED <<dbs, steady, left>>
  BY DEF Render, StopGateway
<1>2. /\ start \in Starts /\ backends \subseteq BackendSpace /\ IsFiniteSet(start.pids)
      /\ dbs \subseteq Slugs
  BY DEF GatewayInv, GatewayTypeOK
<1>3. Numbered(Routes(start.table)) /\ Routes(start.table) \in Numberings
  BY <1>2, PortsNumbered DEF Routes, Numbered
<1>4. /\ start' \in Starts /\ start'.pc = "spawning" /\ start'.pids = start.pids
      /\ start'.pairs = start.pairs /\ start'.conf = Routes(start.table) /\ start'.steady = start.steady
  BY <1>1, <1>2, <1>3 DEF Starts, Steps
<1>5. /\ backends' \subseteq BackendSpace
      /\ \A b \in backends' : \E c \in backends :
           b.pid = c.pid /\ b.slug = c.slug /\ b.port = c.port /\ (c.dying => b.dying)
  <2>1. CASE backends' = backends
    BY <1>2, <2>1
  <2>2. CASE backends' = Signalled(pidFile)
    BY <1>2, <2>2, SignalledBackends
  <2> QED
    BY <1>1, <2>1, <2>2
<1>6. GatewayTypeOK'
  BY <1>1, <1>2, <1>4, <1>5, EmptyTable DEF GatewayInv, GatewayTypeOK
<1>7. PidInv'
  BY <1>1, <1>4, <1>5 DEF GatewayInv, PidInv
<1>8. StartInv'
  <2>1. Injective(start'.conf) /\ Numbered(start'.pairs)
    BY <1>1, <1>3, <1>4 DEF GatewayInv, StartInv, Numbered
  <2>2. start'.steady => start'.conf = start'.pairs
    BY <1>1, <1>4 DEF GatewayInv, StartInv, Routes
  <2>3. \A b \in backends' : b.pid[1] # left'.starts
    <3>1. \A c \in backends : c.pid[1] > left.starts /\ c.pid[1] \in Nat /\ left.starts \in Nat
      BY <1>1 DEF GatewayInv, PidInv, GatewayTypeOK, BackendSpace, PidSpace
    <3>2. \A c \in backends : c.pid[1] # left.starts
      BY <3>1
    <3> QED
      BY <1>1, <1>5, <3>2
  <2> QED
    BY <1>4, <2>1, <2>2, <2>3 DEF StartInv, Numbered
<1>9. RouteInv'
  <2>1. CASE UNCHANGED <<backends, pidFile, nginx>>
    BY <1>1, <1>4, <2>1 DEF GatewayInv, RouteInv
  <2>2. CASE nginx' = <<>>
    BY <2>2, EmptyTable DEF RouteInv, Injective
  <2> QED
    BY <1>1, <2>1, <2>2
<1> QED
  BY <1>6, <1>7, <1>8, <1>9 DEF GatewayInv

(* The next backend: it has a number that backend_pids.txt does not have,  *)
(* and the port of its index.                                              *)
LEMMA SpawnKeepsGateway ==
  ASSUME SettingIsSound, GatewayInv, Spawn
  PROVE  GatewayInv'
<1> DEFINE count == Cardinality(start.pids)
           slug == CHOOSE s \in DOMAIN start.pairs : start.pairs[s] = BasePort + count
           pid == <<left.starts, count>>
           b == [pid |-> pid, slug |-> slug, port |-> start.pairs[slug], bound |-> FALSE, dying |-> FALSE]
<1>1. /\ start.pc = "spawning" /\ count < Cardinality(DOMAIN start.pairs)
      /\ \/ start' = NotStarting /\ backends' = backends
         \/ backends' = backends \cup {b} /\ start' = [start EXCEPT !.pids = @ \cup {pid}]
      /\ UNCHANGED <<dbs, pidFile, nginx, steady, left>>
  BY DEF Spawn
<1>2. /\ start \in Starts /\ backends \subseteq BackendSpace /\ IsFiniteSet(start.pids)
      /\ left.starts \in Nat
  BY DEF GatewayInv, GatewayTypeOK
<1>3. count \in Nat
  BY <1>2, FS_CardinalityType
<1> HIDE DEF count
<1>4. Numbered(start.pairs)
  BY <1>1 DEF GatewayInv, StartInv
<1>5. slug \in DOMAIN start.pairs
  BY <1>1, <1>3, <1>4 DEF Numbered
<1>6. b \in BackendSpace
  <2>1. PICK S \in SUBSET Slugs : start.pairs \in [S -> Nat]
    BY <1>4 DEF Numbered, Numberings
  <2>2. slug \in Slugs /\ start.pairs[slug] \in Nat
    BY <1>5, <2>1
  <2>3. pid \in PidSpace
    BY <1>2, <1>3 DEF PidSpace
  <2> HIDE DEF slug, pid
  <2> QED
    BY <2>2, <2>3 DEF BackendSpace
<1>7. pid[1] = left.starts /\ b.pid = pid /\ OnPort(b, start.pairs)
  BY <1>5 DEF OnPort
<1>8. CASE start' = NotStarting /\ backends' = backends
  <2>1. start' \in Starts /\ start'.pc = "idle" /\ start'.pids = {}
    BY <1>8, EmptyTable DEF NotStarting, Starts, Steps
  <2>2. GatewayTypeOK'
    BY <1>1, <1>8, <2>1, FS_EmptySet DEF GatewayInv, GatewayTypeOK
  <2>3. \A x \in pidFile : x[1] >= left.starts
    <3>1. \A x \in pidFile : x[1] > left.starts /\ x[1] \in Nat
      BY <1>1 DEF GatewayInv, PidInv, GatewayTypeOK, PidSpace
    <3> QED
      BY <1>2, <3>1
  <2>4. PidInv' /\ StartInv' /\ RouteInv'
    BY <1>1, <1>8, <2>1, <2>3 DEF GatewayInv, PidInv, StartInv, RouteInv
  <2> QED
    BY <2>2, <2>4 DEF GatewayInv
<1>9. CASE backends' = backends \cup {b} /\ start' = [start EXCEPT !.pids = @ \cup {pid}]
  <2> HIDE DEF b
  <2>1. pid \in PidSpace
    BY <1>6, <1>7 DEF BackendSpace
  <2> HIDE DEF pid
  <2>2. /\ start' \in Starts /\ start'.pc = "spawning" /\ start'.pids = start.pids \cup {pid}
        /\ start'.pairs = start.pairs /\ start'.conf = start.conf /\ start'.steady = start.steady
    BY <1>1, <1>2, <1>9, <2>1 DEF Starts
  <2>3. IsFiniteSet(start'.pids)
    BY <1>2, <2>2, FS_AddElement
  <2>4. GatewayTypeOK'
    BY <1>1, <1>2, <1>6, <1>9, <2>2, <2>3 DEF GatewayInv, GatewayTypeOK
  <2>5. PidInv'
    BY <1>1, <1>2, <1>7, <1>9, <2>2 DEF GatewayInv, PidInv
  <2>6. StartInv'
    BY <1>1, <1>7, <1>9, <2>2 DEF GatewayInv, StartInv
  <2>7. RouteInv'
    <3>1. pid \notin pidFile
      <4>1. \A x \in pidFile : x[1] > left.starts
        BY <1>1 DEF GatewayInv, PidInv
      <4> QED
        BY <1>2, <1>7, <4>1
    <3> QED
      BY <1>1, <1>7, <1>9, <2>2, <3>1 DEF GatewayInv, RouteInv
  <2> QED
    BY <2>4, <2>5, <2>6, <2>7 DEF GatewayInv
<1> QED
  BY <1>1, <1>8, <1>9

LEMMA WritePidsKeepsGateway ==
  ASSUME GatewayInv, WritePids
  PROVE  GatewayInv'
<1>1. /\ start.pc = "spawning" /\ pidFile' = start.pids /\ start' = [start EXCEPT !.pc = "listening"]
      /\ UNCHANGED <<dbs, backends, nginx, steady, left>>
  BY DEF WritePids
<1>2. start' \in Starts /\ start'.pc = "listening" /\ start'.pids = start.pids /\ start'.pairs = start.pairs
      /\ start'.conf = start.conf /\ start'.steady = start.steady /\ start.pids \subseteq PidSpace
  BY <1>1 DEF GatewayInv, GatewayTypeOK, Starts, Steps
<1>3. GatewayTypeOK'
  BY <1>1, <1>2 DEF GatewayInv, GatewayTypeOK
<1>4. PidInv' /\ StartInv' /\ RouteInv'
  BY <1>1, <1>2 DEF GatewayInv, PidInv, StartInv, RouteInv
<1> QED
  BY <1>3, <1>4 DEF GatewayInv

(* nginx starts with the routes of this start, or its backends are killed. *)
LEMMA RunNginxKeepsGateway ==
  ASSUME SettingIsSound, GatewayInv, RunNginx
  PROVE  GatewayInv'
<1>1. /\ start.pc = "freed" /\ start' = NotStarting
      /\ \/ nginx' = start.conf /\ steady' = start.steady /\ backends' = backends
         \/ backends' = Signalled(start.pids) /\ UNCHANGED <<nginx, steady>>
      /\ UNCHANGED <<dbs, pidFile, left>>
  BY DEF RunNginx
<1>2. /\ start \in Starts /\ backends \subseteq BackendSpace /\ left.starts \in Nat
      /\ start.conf \in Numberings /\ start.steady \in BOOLEAN
  BY DEF GatewayInv, GatewayTypeOK, Starts
<1>3. start' \in Starts /\ start'.pc = "idle" /\ start'.pids = {}
  BY <1>1, EmptyTable DEF NotStarting, Starts, Steps
<1>4. pidFile = start.pids /\ \A x \in pidFile : x[1] = left.starts
  BY <1>1 DEF GatewayInv, PidInv
<1>5. CASE nginx' = start.conf /\ steady' = start.steady /\ backends' = backends
  <2>1. GatewayTypeOK'
    BY <1>1, <1>2, <1>3, <1>5, FS_EmptySet DEF GatewayInv, GatewayTypeOK
  <2>2. PidInv' /\ StartInv'
    BY <1>1, <1>2, <1>3, <1>4, <1>5 DEF GatewayInv, PidInv, StartInv
  <2>3. RouteInv'
    <3>1. /\ Injective(start.conf)
          /\ start.steady => start.conf = start.pairs
          /\ \A b \in backends : b.pid[1] = left.starts => OnPort(b, start.pairs)
      BY <1>1 DEF GatewayInv, StartInv
    <3> QED
      BY <1>1, <1>4, <1>5, <3>1 DEF RouteInv
  <2> QED
    BY <2>1, <2>2, <2>3 DEF GatewayInv
<1>6. CASE backends' = Signalled(start.pids) /\ UNCHANGED <<nginx, steady>>
  <2>1. /\ backends' \subseteq BackendSpace
        /\ \A b \in backends' : \E c \in backends :
             b.pid = c.pid /\ (c.pid \in start.pids => b.dying)
    BY <1>2, <1>6, SignalledBackends
  <2>2. GatewayTypeOK'
    BY <1>1, <1>3, <1>6, <2>1, FS_EmptySet DEF GatewayInv, GatewayTypeOK
  <2>3. PidInv' /\ StartInv'
    BY <1>1, <1>2, <1>3, <1>4, <2>1 DEF GatewayInv, PidInv, StartInv
  <2>4. RouteInv'
    BY <1>1, <1>4, <1>6, <2>1 DEF GatewayInv, RouteInv
  <2> QED
    BY <2>2, <2>3, <2>4 DEF GatewayInv
<1> QED
  BY <1>1, <1>5, <1>6

LEMMA GatewayInvNext ==
  ASSUME SettingIsSound, RegistryInv, GatewayInv, [GatewayNext]_gatewayVars
  PROVE  GatewayInv'
<1>1. left \in [commands : Nat, starts : Nat, changes : Nat]
  BY DEF GatewayInv, GatewayTypeOK
<1>2. ASSUME NEW p \in Processes, NEW op, NEW slug, NEW entry, Loads(p, op, slug, entry)
      PROVE  GatewayInv'
  <2>1. /\ left.commands > 0 /\ left' = [left EXCEPT !.commands = @ - 1] /\ UNCHANGED runningVars
    BY <1>2 DEF Loads
  <2>2. left' \in [commands : Nat, starts : Nat, changes : Nat] /\ UNCHANGED <<left.starts, left.changes>>
    BY <1>1, <2>1
  <2> QED
    BY <2>1, <2>2, RegistryKeepsGateway
<1>3. CASE UNCHANGED <<runningVars, left>>
  BY <1>1, <1>3, RegistryKeepsGateway
<1>4. ASSUME NEW p \in Processes, NEW repo \in Repos, NEW config \in Configs, Upsert(p, repo, config)
      PROVE  GatewayInv'
  BY <1>2, <1>4 DEF Upsert
<1>5. ASSUME NEW p \in Processes, NEW slug \in Slugs, RemoveEntry(p, slug)
      PROVE  GatewayInv'
  BY <1>2, <1>5 DEF RemoveEntry
<1>6. ASSUME NEW p \in Processes, Open(p) \/ WriteText(p) \/ Rename(p) \/ Die(p)
      PROVE  GatewayInv'
  BY <1>3, <1>6 DEF Open, WriteText, Rename, Die
<1>7. ASSUME NEW slug \in Slugs, DatabaseChanges(slug)
      PROVE  GatewayInv'
  BY <1>7, DatabaseKeepsGateway
<1>8. CASE Stop \/ Render \/ Spawn \/ WritePids \/ FreePort \/ RunNginx
  BY <1>8, StopKeepsGateway, RenderKeepsGateway, SpawnKeepsGateway, WritePidsKeepsGateway,
     FreePortKeepsGateway, RunNginxKeepsGateway
<1>9. ASSUME NEW stopFirst \in BOOLEAN, Load(stopFirst)
      PROVE  GatewayInv'
  BY <1>9, LoadKeepsGateway
<1>10. ASSUME NEW b \in backends, Bind(b) \/ Exit(b)
       PROVE  GatewayInv'
  BY <1>10, BackendsKeepGateway
<1>11. CASE UNCHANGED gatewayVars
  BY <1>3, <1>11 DEF gatewayVars
<1> QED
  BY <1>4, <1>5, <1>6, <1>7, <1>8, <1>9, <1>10, <1>11 DEF GatewayNext

(* However often the gateway is started and stopped, whichever starts give *)
(* up half way and whatever backends they leave: between starts no request *)
(* gets to the backend of another index that backend_pids.txt lists, if no *)
(* database came or went while the running gateway was started.  Of the    *)
(* backends that the file does not list nothing is claimed                 *)
(* (RoutesReachTheirIndex).                                                *)
THEOREM RoutesAlwaysReachTheirIndex == GatewaySpec => []RoutesReachTheirIndex
<1>1. GatewayInit => RegistryInv /\ GatewayInv
  BY RegistryInit, GatewayInvInit, SettingAssumption
<1>2. RegistryInv /\ GatewayInv /\ [GatewayNext]_gatewayVars => RegistryInv' /\ GatewayInv'
  BY RegistryNext, GatewayInvNext, SettingAssumption
<1>3. GatewayInv => RoutesReachTheirIndex
  <2> SUFFICES ASSUME GatewayInv, start.pc = "idle", steady, NEW b \in backends, NEW s \in DOMAIN nginx,
                      ~b.dying, b.pid \in pidFile, b.port = nginx[s]
               PROVE  b.slug = s
    BY DEF RoutesReachTheirIndex
  <2>1. OnPort(b, nginx) /\ Injective(nginx)
    BY DEF GatewayInv, RouteInv
  <2> QED
    BY <2>1 DEF OnPort, Injective
<1> QED
  BY <1>1, <1>2, <1>3, PTL DEF GatewaySpec
=============================================================================
