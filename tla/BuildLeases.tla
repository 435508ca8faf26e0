---------------------------- MODULE BuildLeases ----------------------------
(***************************************************************************)
(* What the index-job scheduler promises to the rest of the platform: an   *)
(* accepted job holds an exclusive lease on one database file and on one   *)
(* repository snapshot from the moment it is accepted until it ends, at    *)
(* most Slots jobs hold a slot at once, the others stand in one line and   *)
(* a freed slot goes at once to the head of that line.                     *)
(***************************************************************************)
EXTENDS Integers, Sequences, FiniteSets

CONSTANTS Job, Db, Snapshot, Lease, None, Slots, LineLimit

VARIABLES phase,   \* where each job is in its life
          lease,   \* what each accepted job was granted
          line     \* the jobs that wait for a slot, first come first

vars == <<phase, lease, line>>

Holders == {j \in Job : phase[j] \in {"waiting", "active"}}
Active  == {j \in Job : phase[j] = "active"}

Free(l) == \A j \in Holders : lease[j].db # l.db /\ lease[j].snapshot # l.snapshot

Init == /\ phase = [j \in Job |-> "new"]
        /\ lease = [j \in Job |-> None]
        /\ line = <<>>

(* A slot is free: the job is granted its lease and takes the slot.        *)
Admit(j, l) ==
  /\ phase[j] = "new" /\ Free(l)
  /\ Cardinality(Active) < Slots
  /\ phase' = [phase EXCEPT ![j] = "active"]
  /\ lease' = [lease EXCEPT ![j] = l]
  /\ UNCHANGED line

(* No slot is free: the job is granted its lease and joins the line.       *)
JoinLine(j, l) ==
  /\ phase[j] = "new" /\ Free(l)
  /\ Cardinality(Active) = Slots
  /\ Len(line) < LineLimit
  /\ phase' = [phase EXCEPT ![j] = "waiting"]
  /\ lease' = [lease EXCEPT ![j] = l]
  /\ line' = Append(line, j)

(* A job ends with nobody in the line: its slot stays free.                *)
Vacate(j) ==
  /\ phase[j] = "active" /\ line = <<>>
  /\ phase' = [phase EXCEPT ![j] = "ended"]
  /\ UNCHANGED <<lease, line>>

(* A job ends and hands its slot to the head of the line.                  *)
HandOver(j) ==
  /\ phase[j] = "active" /\ line # <<>>
  /\ phase' = [phase EXCEPT ![j] = "ended", ![Head(line)] = "active"]
  /\ line' = Tail(line)
  /\ UNCHANGED lease

Next == \E j \in Job : \/ \E l \in Lease : Admit(j, l) \/ JoinLine(j, l)
                       \/ Vacate(j)
                       \/ HandOver(j)

Spec == Init /\ [][Next]_vars

(* A job that holds a slot eventually gives it back.                       *)
FairSpec == Spec /\ \A j \in Job : WF_vars(Vacate(j) \/ HandOver(j))
=============================================================================
