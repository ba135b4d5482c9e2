----------------------------- MODULE MCRecovery -----------------------------
(***************************************************************************)
(* What recovery after a crash or a failure rests on, in one run: the      *)
(* initial state picks a part in mode, only that one takes steps, and the  *)
(* variables of the others keep a fixed value.                             *)
(*                                                                         *)
(*   lock     SessionLock: three processes, three lock files               *)
(*   journal  JournalGrowth: restore passes over two operations            *)
(*   store    StateStore: three calls for two sessions, two faults         *)
(*   codec    RecordCodec: one record written, rewritten and read          *)
(*   group    ManagedCgroup: one life of the helper, or crashes and        *)
(*            restarts                                                     *)
(***************************************************************************)
EXTENDS SessionLock, JournalGrowth, StateStore, ManagedCgroup

CONSTANTS p1, p2, p3

ThreeProcs == {p1, p2, p3}

VARIABLES
    mode,
    rec, image, use, edits, out    \* RecordCodec

codecVars == <<rec, image, use, edits, out>>
suiteVars == <<mode, vars, journalVars, storeVars, codecVars, groupVars>>

Codec == INSTANCE RecordCodec WITH
    file <- image, phase <- use, MaxOperations <- 2, MaxTransitions <- 12,
    MaxFailures <- 2, MaxList <- 3, MaxEdits <- 1

-----------------------------------------------------------------------------
JournalOff ==
    /\ disk = [state |-> "Active", ops |-> [i \in 1..NumOps |-> "held"], f |-> 0, t |-> 6, b |-> 0]
    /\ mem = disk /\ at = 0 /\ index = 0 /\ failed = 0 /\ doubt = FALSE /\ fresh = TRUE
CodecOff == rec = 0 /\ image = 0 /\ use = 0 /\ edits = 0 /\ out = 0
GroupOff == GroupInit /\ child = 0 /\ ~crashes

SuiteInit ==
    /\ Init /\ StoreInit
    /\ \/ mode = "lock" /\ JournalOff /\ CodecOff /\ GroupOff
       \/ mode = "journal" /\ GrowthInit /\ CodecOff /\ GroupOff
       \/ mode = "store" /\ JournalOff /\ CodecOff /\ GroupOff
       \/ mode = "codec" /\ JournalOff /\ Codec!Init /\ GroupOff
       \/ mode = "group" /\ JournalOff /\ CodecOff /\ GroupInit

(* A step of the lock and of nothing else. *)
Lock(A) == mode = "lock" /\ A /\ UNCHANGED <<mode, journalVars, storeVars, codecVars, groupVars>>

SuiteNext ==
    \/ Lock(Next)
    \/ /\ UNCHANGED <<mode, vars>>
       /\ \/ mode = "journal" /\ GrowthNext /\ UNCHANGED <<storeVars, codecVars, groupVars>>
          \/ mode = "store" /\ StoreNext /\ UNCHANGED <<journalVars, codecVars, groupVars>>
          \/ mode = "codec" /\ Codec!Next /\ UNCHANGED <<journalVars, storeVars, groupVars>>
          \/ mode = "group" /\ GroupNext /\ UNCHANGED <<journalVars, storeVars, codecVars>>

(* A process that runs goes on, and asks again for a lease it did not get    *)
(* (SessionLock).                                                            *)
SuiteSpec ==
    /\ SuiteInit /\ [][SuiteNext]_suiteVars
    /\ \A p \in Procs : WF_suiteVars(Lock(Step(p))) /\ WF_suiteVars(Lock(Acquire(p)))

-----------------------------------------------------------------------------
(* The properties of the parts; those of the extended machines hold          *)
(* throughout                                                                *)

(* RecordCodec: what is journaled reads back as it was written.              *)
WrittenIsReadable == mode = "codec" => Codec!WrittenIsReadable

(* RecordCodec: what is accepted was read to its end and can be written.     *)
AcceptedIsWritable == mode = "codec" => Codec!AcceptedIsWritable
=============================================================================
