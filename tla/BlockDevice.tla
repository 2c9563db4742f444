----------------------------- MODULE BlockDevice -----------------------------
(***************************************************************************)
(* What the driver offers DOS: calls that read or write count consecutive  *)
(* blocks of a unit, one after the other, and that stop with an error at   *)
(* the first block the device fails on.  LptProtocol implements this.      *)
(***************************************************************************)
EXTENDS Integers, Sequences

CONSTANTS Unit, Lbn, Data,  \* units, block numbers, contents before any write
          Calls,            \* the calls that DOS makes
          None              \* no call

VARIABLES disk,     \* the blocks: [Unit -> [Lbn -> contents]]
          call,     \* the call in progress, or None
          done,     \* blocks of it transferred
          got,      \* contents read by the call in progress, or by the last
          failed,   \* has the device failed on a block of it?
          outcome   \* of the last call

vars == <<disk, call, done, got, failed, outcome>>

Init == /\ disk \in [Unit -> [Lbn -> Data]]
        /\ call = None /\ done = 0 /\ got = <<>>
        /\ failed = FALSE /\ outcome = "none"

Start == /\ call = None
         /\ call' \in Calls
         /\ done' = 0 /\ got' = <<>> /\ failed' = FALSE
         /\ UNCHANGED <<disk, outcome>>

Busy == call # None /\ ~failed /\ done < call.count

ReadBlock == /\ Busy /\ call.kind = "read"
             /\ call.unit \in Unit /\ call.lbn + done \in Lbn
             /\ got' = Append(got, disk[call.unit][call.lbn + done])
             /\ done' = done + 1
             /\ UNCHANGED <<disk, call, failed, outcome>>

Store == disk' = [disk EXCEPT ![call.unit][call.lbn + done] = call.data[done + 1]]

WriteBlock == /\ Busy /\ call.kind = "write"
              /\ call.unit \in Unit /\ call.lbn + done \in Lbn
              /\ Store
              /\ done' = done + 1
              /\ UNCHANGED <<call, got, failed, outcome>>

\* A write that fails may have reached the medium.
Fail == /\ Busy
        /\ failed' = TRUE
        /\ \/ UNCHANGED disk
           \/ /\ call.kind = "write"
              /\ call.unit \in Unit /\ call.lbn + done \in Lbn
              /\ Store
        /\ UNCHANGED <<call, done, got, outcome>>

Return == /\ call # None
          /\ failed \/ done = call.count
          /\ outcome' = IF failed THEN "error" ELSE "ok"
          /\ call' = None
          /\ done' = 0 /\ failed' = FALSE
          /\ UNCHANGED <<disk, got>>

Next == Start \/ ReadBlock \/ WriteBlock \/ Fail \/ Return

Spec == Init /\ [][Next]_vars
=============================================================================
