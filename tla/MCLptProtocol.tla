---------------------------- MODULE MCLptProtocol ----------------------------
(* Instances of LptProtocol for TLC.  Five values of a byte are the five    *)
(* commands; blocks of seven bytes make two-digit lengths.                  *)
EXTENDS LptProtocol

\* blocks that compress well, to a code with a two-digit length, and not at all
MCZero == Zeros(7)
MCHalf == <<1, 2, 3, 0, 0, 0, 0>>
MCFull == <<4, 1, 0, 2, 0, 1, 3>>

MCFresh == {MCHalf}

MCWrite(unit, lbn, data) ==
    [kind |-> "write", unit |-> unit, lbn |-> lbn, count |-> Len(data), data |-> data]

MCRead(unit, lbn, count) ==
    [kind |-> "read", unit |-> unit, lbn |-> lbn, count |-> count, data |-> <<>>]

\* Calls of one and two blocks; the storage has two units of two blocks, so a
\* call may run into the end of a unit, or name a unit that there is not.
MCCalls ==
    {MCWrite(1, 0, <<MCFull, MCZero>>), MCWrite(1, 1, <<MCZero, MCFull>>),
     MCWrite(0, 1, <<MCFull>>),
     MCRead(1, 0, 2), MCRead(0, 1, 2), MCRead(2, 0, 1)}

\* Calls for the runs in which the host is stopped: the end of MCLast is a
\* byte that is also a command; MCAsWrite holds a whole request.
MCLast == <<1, 1, 2, 1, 2, 1, 0>>
MCAsWrite == <<4, 0, 0, 1, 0, 1, 2>>

MCHaltCalls == {MCWrite(0, 0, <<MCLast>>), MCRead(0, 0, 1)}

MCAsWriteCalls == {MCWrite(0, 0, <<MCAsWrite>>)}

\* A block whose bytes are also commands is written; two are read, compressed, the
\* second one written by nobody.
MCStoppedCalls == {MCWrite(0, 0, <<MCLast>>), MCRead(0, 0, 2)}
=============================================================================
