------------------------------ MODULE Gateway ------------------------------
(***************************************************************************)
(* The registry of built indexes (index_metadata.py) and the gateway that  *)
(* serves them (mcp_gateway_local.py).                                     *)
(*                                                                         *)
(* The registry is a JSON file that every command loads, changes and saves *)
(* through one temporary file, without a lock.  gateway start gives each   *)
(* ready entry whose database exists the next port, spawns a backend per   *)
(* entry, leaves their process numbers in backend_pids.txt and starts      *)
(* nginx with a route per entry; gateway stop signals what that file lists.*)
(*                                                                         *)
(* A repository name is its words and the separators between them.  The    *)
(* text of the registry is as long as its entries are many.  The commit is *)
(* the same for all, the reuse of process numbers is left out, and a stop  *)
(* always reaches nginx.                                                   *)
(***************************************************************************)
EXTENDS Naturals, Sequences, FiniteSets, Functions

CONSTANTS
  Repos,       \* repository names: records of words and separators
  SlugOrder,   \* the slugs of Repos in ascending order
  Configs,     \* configuration files an entry may name
  Missing,     \* those of them that do not exist
  Processes,   \* processes that change the registry
  BasePort,
  Budgets      \* bounds: commands, gateway starts and changes of databases

NoFile == 0

VARIABLES
  files,     \* the text of every file that is open or has a name
  meta,      \* the file named index_metadata.json
  tmp,       \* the file named index_metadata.json.tmp, or NoFile
  writer,    \* what each process is doing
  acked,     \* history: the table that the commands which succeeded make
  serial,    \* history: no two processes were ever saving at once
  left,      \* what remains of the bounds
  dbs,       \* the slugs whose database exists
  start,     \* the gateway start under way
  backends,  \* live backend processes
  pidFile,   \* backend_pids.txt
  nginx,     \* the routes of the running nginx: a port for each slug
  steady     \* history: no database came or went while the running gateway was started

registryVars == <<files, meta, tmp, writer, acked, serial>>
runningVars == <<dbs, start, backends, pidFile, nginx, steady>>
gatewayVars == <<registryVars, runningVars, left>>

-----------------------------------------------------------------------------
(* Slugs *)

(* sanitize_repo_name: whatever separates the words becomes one underscore.*)
Slug(repo) == IF repo.words = <<>> THEN <<"repo">> ELSE repo.words

Slugs == {Slug(r) : r \in Repos}
Position(slug) == CHOOSE i \in DOMAIN SlugOrder : SlugOrder[i] = slug

(* What the constants have to be.                                          *)
SettingIsSound ==
  /\ IsFiniteSet(Repos) /\ IsFiniteSet(Processes) /\ BasePort \in Nat
  /\ SlugOrder \in Seq(Slugs) /\ Slugs \subseteq {SlugOrder[i] : i \in DOMAIN SlugOrder}
  /\ Budgets \subseteq [commands : Nat, starts : Nat, changes : Nat]

ASSUME SettingAssumption == SettingIsSound

-----------------------------------------------------------------------------
(* The registry file *)

Text(table) == [whole |-> TRUE, length |-> Cardinality(DOMAIN table) + 1, table |-> table]
Blank == [whole |-> FALSE, length |-> 0, table |-> <<>>]
Torn(length) == [whole |-> FALSE, length |-> length, table |-> <<>>]

Resting == [pc |-> "idle", file |-> NoFile, op |-> "none", slug |-> <<>>, entry |-> <<>>, table |-> <<>>]
Files == 1..(Cardinality(Processes) + 2)
Free == CHOOSE f \in Files : f \notin {meta, tmp} \cup {writer[p].file : p \in Processes}

(* load_metadata raises unless the file holds one whole document.          *)
Readable == files[meta].whole

Updated(table, op, slug, entry) ==
  IF op = "upsert" THEN [s \in DOMAIN table \cup {slug} |-> IF s = slug THEN entry ELSE table[s]]
  ELSE Restrict(table, DOMAIN table \ {slug})

Loads(p, op, slug, entry) ==
  /\ writer[p].pc = "idle" /\ left.commands > 0 /\ Readable
  /\ op = "remove" => slug \in DOMAIN files[meta].table
  /\ writer' = [writer EXCEPT ![p] =
       [pc |-> "loaded", file |-> NoFile, op |-> op, slug |-> slug, entry |-> entry,
        table |-> Updated(files[meta].table, op, slug, entry)]]
  /\ serial' = (serial /\ \A r \in Processes : writer[r].pc = "idle")
  /\ left' = [left EXCEPT !.commands = @ - 1]
  /\ UNCHANGED <<files, meta, tmp, acked, runningVars>>

(* upsert_entry and remove_entry; the second leaves the file alone when it *)
(* has no such entry.                                                      *)
Upsert(p, repo, config) == Loads(p, "upsert", Slug(repo), [repo |-> repo, config |-> config])
RemoveEntry(p, slug) == Loads(p, "remove", slug, <<>>)

(* Faulty: the registry itself is opened for writing.                      *)
OpenInPlace(p) ==
  /\ writer[p].pc = "loaded"
  /\ files' = [files EXCEPT ![meta] = Blank]
  /\ writer' = [writer EXCEPT ![p].pc = "open", ![p].file = meta]
  /\ tmp' = meta
  /\ UNCHANGED <<meta, acked, serial, left, runningVars>>

(* save_metadata opens the temporary file: a new one, or one that another  *)
(* process or a dead one has left, which it empties.                       *)
Open(p) ==
  /\ writer[p].pc = "loaded"
  /\ LET file == IF tmp = NoFile THEN Free ELSE tmp IN
       /\ files' = [files EXCEPT ![file] = Blank]
       /\ writer' = [writer EXCEPT ![p].pc = "open", ![p].file = file]
       /\ tmp' = file
  /\ UNCHANGED <<meta, acked, serial, left, runningVars>>

(* The text is written from the start of the file, over what is there.     *)
WriteText(p) ==
  /\ writer[p].pc = "open"
  /\ LET new == Text(writer[p].table)
         old == files[writer[p].file]
     IN files' = [files EXCEPT ![writer[p].file] = IF new.length >= old.length THEN new ELSE Torn(old.length)]
  /\ writer' = [writer EXCEPT ![p].pc = "written", ![p].file = NoFile]
  /\ UNCHANGED <<meta, tmp, acked, serial, left, runningVars>>

Rename(p) ==
  /\ writer[p].pc = "written"
  /\ IF tmp = NoFile
     THEN UNCHANGED <<meta, tmp, acked>>   \* FileNotFoundError
     ELSE /\ meta' = tmp /\ tmp' = NoFile
          /\ acked' = Updated(acked, writer[p].op, writer[p].slug, writer[p].entry)
  /\ writer' = [writer EXCEPT ![p] = Resting]
  /\ UNCHANGED <<files, serial, left, runningVars>>

(* A process may die with its command half done.                           *)
Die(p) ==
  /\ writer[p].pc # "idle"
  /\ writer' = [writer EXCEPT ![p] = Resting]
  /\ UNCHANGED <<files, meta, tmp, acked, serial, left, runningVars>>

-----------------------------------------------------------------------------
(* The gateway *)

(* Builds write databases, users delete them.                              *)
DatabaseChanges(slug) ==
  /\ left.changes > 0
  /\ dbs' = IF slug \in dbs THEN dbs \ {slug} ELSE dbs \cup {slug}
  /\ start' = [start EXCEPT !.steady = @ /\ start.pc # "loaded"]
  /\ left' = [left EXCEPT !.changes = @ - 1]
  /\ UNCHANGED <<registryVars, backends, pidFile, nginx, steady>>

Ready(table) == DOMAIN table \cap dbs

(* cli_assign_backend_ports                                                *)
Ports(table) ==
  [s \in Ready(table) |-> BasePort + Cardinality({t \in Ready(table) : Position(t) < Position(s)})]

(* Faulty: the routes are numbered in another order than the ports.        *)
RoutesUnsorted(table) ==
  [s \in Ready(table) |-> BasePort + Cardinality({t \in Ready(table) : Position(t) > Position(s)})]

(* render_nginx_gateway_conf selects and numbers the entries once more.    *)
Routes(table) == Ports(table)

NotStarting ==
  [pc |-> "idle", table |-> <<>>, pairs |-> <<>>, conf |-> <<>>, stopFirst |-> TRUE, pids |-> {}, steady |-> TRUE]

Signalled(pids) == {[b EXCEPT !.dying = b.dying \/ b.pid \in pids] : b \in backends}

(* _stop_gateway, of gateway stop and before a start.                      *)
StopGateway ==
  /\ backends' = Signalled(pidFile)
  /\ pidFile' = {} /\ nginx' = <<>>

Stop ==
  /\ start.pc = "idle" /\ StopGateway
  /\ UNCHANGED <<registryVars, dbs, start, steady, left>>

Load(stopFirst) ==
  /\ start.pc = "idle" /\ left.starts > 0 /\ Readable
  /\ Ready(files[meta].table) # {}
  /\ start' = [NotStarting EXCEPT !.pc = "loaded", !.table = files[meta].table,
                                  !.pairs = Ports(files[meta].table), !.stopFirst = stopFirst]
  /\ left' = [left EXCEPT !.starts = @ - 1]
  /\ UNCHANGED <<registryVars, dbs, backends, pidFile, nginx, steady>>

Render ==
  /\ start.pc = "loaded"
  /\ start' = [start EXCEPT !.pc = "spawning", !.conf = Routes(start.table)]
  /\ IF start.stopFirst THEN StopGateway ELSE UNCHANGED <<backends, pidFile, nginx>>
  /\ UNCHANGED <<registryVars, dbs, steady, left>>

(* The backends are spawned in order; a missing configuration ends the     *)
(* start there, and leaves those before it out of backend_pids.txt.  A     *)
(* process number is that of the start and of the backend in it.           *)
Spawn ==
  /\ start.pc = "spawning" /\ Cardinality(start.pids) < Cardinality(DOMAIN start.pairs)
  /\ LET slug == CHOOSE s \in DOMAIN start.pairs : start.pairs[s] = BasePort + Cardinality(start.pids)
         pid == <<left.starts, Cardinality(start.pids)>>
     IN IF start.table[slug].config \in Missing
        THEN /\ start' = NotStarting /\ UNCHANGED backends
        ELSE /\ backends' = backends \cup
                  {[pid |-> pid, slug |-> slug, port |-> start.pairs[slug], bound |-> FALSE, dying |-> FALSE]}
             /\ start' = [start EXCEPT !.pids = @ \cup {pid}]
  /\ UNCHANGED <<registryVars, dbs, pidFile, nginx, steady, left>>

WritePids ==
  /\ start.pc = "spawning" /\ Cardinality(start.pids) = Cardinality(DOMAIN start.pairs)
  /\ pidFile' = start.pids
  /\ start' = [start EXCEPT !.pc = "listening"]
  /\ UNCHANGED <<registryVars, dbs, backends, nginx, steady, left>>

(* _free_tcp_listen_port signals whoever listens there, an nginx of before *)
(* included, and waits a second.                                           *)
FreePort ==
  /\ start.pc = "listening"
  /\ start' = [start EXCEPT !.pc = "freed"]
  /\ nginx' \in {nginx, <<>>}
  /\ UNCHANGED <<registryVars, dbs, backends, pidFile, steady, left>>

(* nginx gets the port, or fails because an nginx of before or a stranger  *)
(* still has it: the new backends are killed and stay in the file.         *)
RunNginx ==
  /\ start.pc = "freed"
  /\ start' = NotStarting
  /\ \/ nginx = <<>> /\ nginx' = start.conf /\ steady' = start.steady /\ UNCHANGED backends
     \/ backends' = Signalled(start.pids) /\ UNCHANGED <<nginx, steady>>
  /\ UNCHANGED <<registryVars, dbs, pidFile, left>>

(* A backend gets its port, or exits because another one has it.           *)
Bind(b) ==
  /\ ~b.bound /\ ~b.dying
  /\ backends' = IF \E c \in backends : c.bound /\ c.port = b.port
                 THEN backends \ {b}
                 ELSE (backends \ {b}) \cup {[b EXCEPT !.bound = TRUE]}
  /\ UNCHANGED <<registryVars, dbs, start, pidFile, nginx, steady, left>>

Exit(b) ==
  /\ b.dying
  /\ backends' = backends \ {b}
  /\ UNCHANGED <<registryVars, dbs, start, pidFile, nginx, steady, left>>

-----------------------------------------------------------------------------
GatewayInit ==
  /\ files = [f \in Files |-> Text(<<>>)]
  /\ meta = 1 /\ tmp = NoFile /\ acked = <<>> /\ serial = TRUE
  /\ writer = [p \in Processes |-> Resting]
  /\ dbs = Slugs /\ left \in Budgets
  /\ start = NotStarting
  /\ backends = {} /\ pidFile = {} /\ nginx = <<>> /\ steady = TRUE

GatewayNext ==
  \/ \E p \in Processes :
       \/ \E repo \in Repos, config \in Configs : Upsert(p, repo, config)
       \/ \E slug \in Slugs : RemoveEntry(p, slug)
       \/ Open(p) \/ WriteText(p) \/ Rename(p) \/ Die(p)
  \/ \E slug \in Slugs : DatabaseChanges(slug)
  \/ Stop \/ Render \/ Spawn \/ WritePids \/ FreePort \/ RunNginx
  \/ \E stopFirst \in BOOLEAN : Load(stopFirst)
  \/ \E b \in backends : Bind(b) \/ Exit(b)

GatewaySpec == GatewayInit /\ [][GatewayNext]_gatewayVars

-----------------------------------------------------------------------------
(* As long as commands do not overlap, the registry is readable and has    *)
(* what the commands that succeeded put there, whichever of them died      *)
(* half way (save_metadata).                                               *)
RegistryIsWhole == serial => Readable /\ files[meta].table = acked

(* A request for an index never gets to another one's backend through the  *)
(* nginx that runs, although ports are numbered twice and anew at every    *)
(* start, except by a backend that backend_pids.txt does not list (left by *)
(* a start that a missing configuration ended, or not stopped first) and   *)
(* unless databases came or went while that gateway was started.           *)
RoutesReachTheirIndex ==
  start.pc = "idle" /\ steady =>
    \A b \in backends, s \in DOMAIN nginx :
      b.bound /\ ~b.dying /\ b.pid \in pidFile /\ b.port = nginx[s] => b.slug = s
=============================================================================
