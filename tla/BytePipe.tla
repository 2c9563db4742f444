------------------------------ MODULE BytePipe ------------------------------
(***************************************************************************)
(* What the parallel-port handshake promises its two users: a half-duplex  *)
(* channel that holds at most one byte.  A byte that is put is got exactly *)
(* once, by the other side, with its value, and no other byte is put on    *)
(* the channel in between.  LptLink is shown to implement this.            *)
(***************************************************************************)
EXTENDS Integers, Sequences

CONSTANT Byte

VARIABLES line,  \* <<>>, or <<receiver, byte>>: the byte in flight
          tret,  \* the last byte the target received
          hret   \* the last byte the host received

TypeOK == /\ line \in {<<>>} \cup ({"target", "host"} \X Byte)
          /\ tret \in Byte
          /\ hret \in Byte

Init == /\ line = <<>>
        /\ tret \in Byte
        /\ hret \in Byte

Put(receiver) == /\ line = <<>>
                 /\ \E b \in Byte : line' = <<receiver, b>>
                 /\ UNCHANGED <<tret, hret>>

TargetGet == \E b \in Byte : /\ line = <<"target", b>>
                             /\ tret' = b
                             /\ line' = <<>>
                             /\ UNCHANGED hret

HostGet == \E b \in Byte : /\ line = <<"host", b>>
                           /\ hret' = b
                           /\ line' = <<>>
                           /\ UNCHANGED tret

Next == Put("target") \/ Put("host") \/ TargetGet \/ HostGet

Spec == Init /\ [][Next]_<<line, tret, hret>>
=============================================================================
