---------------------------- MODULE LptLinkProofs ----------------------------
(***************************************************************************)
(* What the handshake guarantees for every set of nibbles, every set of    *)
(* commands and all lengths of requests and replies, as long as the host   *)
(* is not stopped in mid-call and the target does not outrun its poll.     *)
(*                                                                         *)
(* InSync says where one side can be, given the next port access of the    *)
(* other; it is inductive together with TypeOK.  TypeOK is inductive by    *)
(* itself; the action property and the refinement follow from the two.     *)
(***************************************************************************)
EXTENDS LptLink, TLAPS

USE DEF wires, host, target, vars
-----------------------------------------------------------------------------
\* A step of the running system keeps every variable in its type.
LEMMA TypeStep == TypeOK /\ [PromptNext]_vars => TypeOK'
<1> SUFFICES ASSUME TypeOK, [PromptNext]_vars
             PROVE  TypeOK'
  OBVIOUS
<1> USE LinkAssumption DEF TypeOK, HostPC, TargetPC, Byte
<1>1. CASE HostInitDone
  BY <1>1 DEF HostInitDone, HostGoto
<1>2. CASE HostStart
  BY <1>2 DEF HostStart, HostGoto
<1>3. CASE HostSend
  BY <1>3 DEF HostSend, HostGoto
<1>4. CASE HostSendUp
  BY <1>4 DEF HostSendUp, HostGoto
<1>5. CASE HostSendMid
  BY <1>5 DEF HostSendMid, HostGoto
<1>6. CASE HostSendDown
  BY <1>6 DEF HostSendDown
<1>7. CASE HostRecvUp
  BY <1>7 DEF HostRecvUp, HostGoto
<1>8. CASE HostRecvHi
  BY <1>8 DEF HostRecvHi, HostGoto
<1>9. CASE HostRecvRaise
  BY <1>9 DEF HostRecvRaise, HostGoto
<1>10. CASE HostRecvDown
  BY <1>10 DEF HostRecvDown, HostGoto
<1>11. CASE HostRecvLo
  BY <1>11 DEF HostRecvLo, HostGoto
<1>12. CASE HostRecvLower
  BY <1>12 DEF HostRecvLower
<1>13. CASE TargetHasByte
  BY <1>13 DEF TargetHasByte, TargetGoto
<1>14. CASE TargetGetUp
  BY <1>14 DEF TargetGetUp, TargetGoto
<1>15. CASE TargetGetHi
  BY <1>15 DEF TargetGetHi, TargetGoto
<1>16. CASE TargetGetRaise
  BY <1>16 DEF TargetGetRaise, TargetGoto
<1>17. CASE TargetGetDown
  BY <1>17 DEF TargetGetDown, TargetGoto
<1>18. CASE TargetGetLo
  BY <1>18 DEF TargetGetLo, TargetGoto
<1>19. CASE TargetGetLower
  BY <1>19 DEF TargetGetLower
<1>20. CASE TargetPut
  BY <1>20 DEF TargetPut, TargetGoto
<1>21. CASE TargetPutRaise
  BY <1>21 DEF TargetPutRaise, RaiseReply, TargetGoto
<1>22. CASE TargetPutUp
  BY <1>22 DEF TargetPutUp, TargetGoto
<1>23. CASE TargetPutLo
  BY <1>23 DEF TargetPutLo, TargetGoto
<1>24. CASE TargetPutLower
  BY <1>24 DEF TargetPutLower, TargetGoto
<1>25. CASE TargetPutDown
  BY <1>25 DEF TargetPutDown
<1>26. CASE TargetGetUpTimeout
  BY <1>26 DEF TargetGetUpTimeout, TargetTimeout, TargetGoto
<1>27. CASE TargetGetDownTimeout
  BY <1>27 DEF TargetGetDownTimeout, TargetTimeout, TargetGoto
<1>28. CASE TargetPutUpTimeout
  BY <1>28 DEF TargetPutUpTimeout, TargetTimeout, TargetGoto
<1>29. CASE TargetPutDownTimeout
  BY <1>29 DEF TargetPutDownTimeout, TargetTimeout, TargetGoto
<1>30. CASE UNCHANGED vars
  BY <1>30
<1> QED
  BY <1>1, <1>2, <1>3, <1>4, <1>5, <1>6, <1>7, <1>8, <1>9, <1>10, <1>11, <1>12, <1>13, <1>14, <1>15, <1>16, <1>17, <1>18, <1>19, <1>20, <1>21, <1>22, <1>23, <1>24, <1>25, <1>26, <1>27, <1>28, <1>29, <1>30 DEF PromptNext, HostStep, TargetNext

\* Every variable of the running system has its type.
THEOREM TypeCorrect == PromptSpec => []TypeOK
<1>1. Init => TypeOK
  BY LinkAssumption DEF Init, TypeOK, HostPC, TargetPC, Byte
<1> QED
  BY <1>1, TypeStep, PTL DEF PromptSpec
-----------------------------------------------------------------------------
\* A step of the host keeps the two sides in the middle of the same byte.
LEMMA HostStepInSync ==
    TypeOK /\ InSync /\ (HostStart \/ HostStep) => InSync'
<1> SUFFICES ASSUME TypeOK, InSync, HostStart \/ HostStep
             PROVE  InSync'
  OBVIOUS
<1> USE LinkAssumption DEF TypeOK, InSync, Quiet, Expecting, Taking, Giving, Byte,
        HostGoto, SyncIdle, SyncSend, SyncSendUp, SyncSendMid, SyncSendDown,
        SyncRecvUp, SyncRecvHi, SyncRecvDown, SyncRecvLo
<1>1. CASE HostInitDone
  BY <1>1 DEF HostInitDone
<1>2. CASE HostStart
  BY <1>2 DEF HostStart
<1>3. CASE HostSend
  BY <1>3 DEF HostSend
<1>4. CASE HostSendUp
  BY <1>4 DEF HostSendUp
<1>5. CASE HostSendMid
  BY <1>5 DEF HostSendMid
<1>6. CASE HostSendDown
  BY <1>6 DEF HostSendDown
<1>7. CASE HostRecvUp
  BY <1>7 DEF HostRecvUp
<1>8. CASE HostRecvHi
  BY <1>8 DEF HostRecvHi
<1>9. CASE HostRecvRaise
  BY <1>9 DEF HostRecvRaise
<1>10. CASE HostRecvDown
  BY <1>10 DEF HostRecvDown
<1>11. CASE HostRecvLo
  BY <1>11 DEF HostRecvLo
<1>12. CASE HostRecvLower
  BY <1>12 DEF HostRecvLower
<1> QED
  BY <1>1, <1>2, <1>3, <1>4, <1>5, <1>6, <1>7, <1>8, <1>9, <1>10, <1>11, <1>12 DEF HostStep

\* A step of the target keeps the two sides in the middle of the same byte.
\* Three of the timeouts cannot fire; the fourth ends a finished reply.
LEMMA TargetStepInSync == TypeOK /\ InSync /\ TargetNext => InSync'
<1> SUFFICES ASSUME TypeOK, InSync, TargetNext
             PROVE  InSync'
  OBVIOUS
<1> USE LinkAssumption DEF TypeOK, InSync, Quiet, Expecting, Taking, Giving, Byte,
        TargetGoto, SyncIdle, SyncSend, SyncSendUp, SyncSendMid, SyncSendDown,
        SyncRecvUp, SyncRecvHi, SyncRecvDown, SyncRecvLo, HostPC, TargetPC
<1>1. CASE TargetHasByte
  BY <1>1 DEF TargetHasByte
<1>2. CASE TargetGetUp
  BY <1>2 DEF TargetGetUp
<1>3. CASE TargetGetHi
  BY <1>3 DEF TargetGetHi
<1>4. CASE TargetGetRaise
  BY <1>4 DEF TargetGetRaise
<1>5. CASE TargetGetDown
  BY <1>5 DEF TargetGetDown
<1>6. CASE TargetGetLo
  BY <1>6 DEF TargetGetLo
<1>7. CASE TargetGetLower
  BY <1>7 DEF TargetGetLower
<1>8. CASE TargetPut
  BY <1>8 DEF TargetPut
<1>9. CASE TargetPutRaise
  BY <1>9 DEF TargetPutRaise, RaiseReply, HostStillPolls
<1>10. CASE TargetPutUp
  BY <1>10 DEF TargetPutUp
<1>11. CASE TargetPutLo
  BY <1>11 DEF TargetPutLo
<1>12. CASE TargetPutLower
  BY <1>12 DEF TargetPutLower
<1>13. CASE TargetPutDown
  BY <1>13 DEF TargetPutDown
<1>14. CASE TargetGetUpTimeout
  BY <1>14 DEF TargetGetUpTimeout, TargetTimeout, HostIsLate
<1>15. CASE TargetGetDownTimeout
  BY <1>15 DEF TargetGetDownTimeout, TargetTimeout, HostIsLate
<1>16. CASE TargetPutUpTimeout
  BY <1>16 DEF TargetPutUpTimeout, TargetTimeout, HostIsLate
<1>17. CASE TargetPutDownTimeout
  BY <1>17 DEF TargetPutDownTimeout, TargetTimeout, HostIsLate
<1> QED
  BY <1>1, <1>2, <1>3, <1>4, <1>5, <1>6, <1>7, <1>8, <1>9, <1>10, <1>11, <1>12, <1>13, <1>14, <1>15, <1>16, <1>17 DEF TargetNext

\* TypeOK and InSync are inductive.
LEMMA Inductive ==
    /\ Init => TypeOK /\ InSync
    /\ TypeOK /\ InSync /\ [PromptNext]_vars => (TypeOK /\ InSync)'
<1>1. Init => TypeOK /\ InSync
  BY LinkAssumption
  DEF Init, TypeOK, HostPC, TargetPC, Byte, InSync, Quiet, SyncIdle, SyncSend,
      SyncSendUp, SyncSendMid, SyncSendDown, SyncRecvUp, SyncRecvHi,
      SyncRecvDown, SyncRecvLo
<1>2. TypeOK /\ InSync /\ UNCHANGED vars => InSync'
  BY DEF InSync, Quiet, Expecting, Taking, Giving, SyncIdle, SyncSend,
      SyncSendUp, SyncSendMid, SyncSendDown, SyncRecvUp, SyncRecvHi,
      SyncRecvDown, SyncRecvLo
<1> QED
  BY <1>1, <1>2, TypeStep, HostStepInSync, TargetStepInSync DEF PromptNext

\* The two sides are always in the middle of the same byte of the same command.
THEOREM Synchronised == PromptSpec => [](TypeOK /\ InSync)
  BY Inductive, PTL DEF PromptSpec
-----------------------------------------------------------------------------
(* The same with a host that is stopped, and with replies that outrun it.  *)

\* A host between two calls has left its strobe low.
Lowered == hpc \in {"init", "idle"} => strobe = 0

LEMMA LoweredStep == TypeOK /\ Lowered /\ [Next]_vars => (TypeOK /\ Lowered)'
<1> SUFFICES ASSUME TypeOK, Lowered, [Next]_vars
             PROVE  TypeOK' /\ Lowered'
  OBVIOUS
<1>1. CASE [PromptNext]_vars
  <2>1. TypeOK'
    BY <1>1, TypeStep
  <2>2. ASSUME HostStart \/ HostStep \/ UNCHANGED vars
        PROVE  Lowered'
    <3>1. CASE HostInitDone \/ UNCHANGED vars
      BY <3>1 DEF Lowered, HostInitDone, HostGoto
    <3>2. CASE HostRecvLower
      BY <3>2 DEF Lowered, HostRecvLower
    <3>3. ASSUME ~HostInitDone, ~HostRecvLower, ~UNCHANGED vars
          PROVE  hpc' \notin {"init", "idle"}
      BY <2>2, <3>3 DEF HostStart, HostStep, HostGoto, HostSend, HostSendUp, HostSendMid,
             HostSendDown, HostRecvUp, HostRecvHi, HostRecvRaise, HostRecvDown, HostRecvLo
    <3> QED
      BY <3>1, <3>2, <3>3 DEF Lowered
  <2>3. ASSUME TargetNext
        PROVE  Lowered'
    <3>1. UNCHANGED <<strobe, hpc>>
      BY <2>3 DEF TargetNext, TargetGoto, TargetHasByte, TargetGetUp, TargetGetHi,
             TargetGetRaise, TargetGetDown, TargetGetLo, TargetGetLower, TargetPut,
             TargetPutRaise, RaiseReply, TargetPutUp, TargetPutLo, TargetPutLower,
             TargetPutDown, TargetTimeout, TargetGetUpTimeout, TargetGetDownTimeout,
             TargetPutUpTimeout, TargetPutDownTimeout
    <3> QED
      BY <3>1 DEF Lowered
  <2> QED
    BY <1>1, <2>1, <2>2, <2>3 DEF PromptNext
<1>2. CASE HostHalt
  <2>1. halts' \in 0 .. MaxHalts
    BY <1>2, LinkAssumption DEF HostHalt, TypeOK
  <2>2. /\ UNCHANGED <<strobe, ack, hdata, tdata, hpc, hbyte, hret, hcmd, hcnt>>
        /\ UNCHANGED <<tpc, tbyte, tret, tcmd, tcnt>>
        /\ hrun' = FALSE
    BY <1>2 DEF HostHalt
  <2> QED
    BY <2>1, <2>2 DEF HostPC, TargetPC, Byte, Lowered, TypeOK
<1>3. CASE HostResume
  BY <1>3 DEF HostPC, TargetPC, Byte, HostResume, Lowered, TypeOK
<1>4. CASE HostReboot
  BY <1>4, LinkAssumption DEF HostPC, TargetPC, Byte, HostReboot, Lowered, TypeOK
<1>5. CASE TargetOutrunsPoll
  BY <1>5 DEF HostPC, TargetPC, Byte, TargetOutrunsPoll, RaiseReply, TargetGoto, Lowered, TypeOK
<1> QED
  BY <1>1, <1>2, <1>3, <1>4, <1>5 DEF Next, HaltNext

\* A call that finds the target in its loop and the acknowledge low is in lockstep,
\* whatever was stopped, given up or booted again before, and stays so while the
\* host runs and sees the end of its request.
THEOREM StaysInStep == Spec => InStepAgain
<1>1. Init => TypeOK /\ Lowered
  BY LinkAssumption DEF Init, TypeOK, HostPC, TargetPC, Byte, Lowered
<1>2. ASSUME TypeOK, Lowered, [Next]_vars, hrun',
             InSync \/ (hrun /\ hpc = "idle" /\ hpc' = "send" /\ tpc = "idle" /\ ack = 0),
             ~(HostStillPolls /\ tpc = "putRaise" /\ tpc' = "putUp")
      PROVE  InSync'
  <2>1. hrun
    BY <1>2 DEF InSync
  <2>2. [PromptNext]_vars
    BY <1>2, <2>1 DEF Next, HaltNext, HostHalt, HostResume, HostReboot, TargetOutrunsPoll,
           RaiseReply, TargetGoto
  <2>3. CASE InSync
    BY <1>2, <2>2, <2>3, Inductive
  <2>4. CASE hpc = "idle" /\ hpc' = "send" /\ tpc = "idle" /\ ack = 0
    <3>1. HostStart
      <4>1. ~TargetNext
        BY <2>4 DEF TargetNext, TargetGoto, TargetHasByte, TargetGetUp, TargetGetHi,
               TargetGetRaise, TargetGetDown, TargetGetLo, TargetGetLower, TargetPut,
               TargetPutRaise, RaiseReply, TargetPutUp, TargetPutLo, TargetPutLower,
               TargetPutDown, TargetTimeout, TargetGetUpTimeout, TargetGetDownTimeout,
               TargetPutUpTimeout, TargetPutDownTimeout
      <4>2. ~HostStep
        BY <2>4 DEF HostStep, HostGoto, HostInitDone, HostSend, HostSendUp,
           HostSendMid, HostSendDown, HostRecvUp, HostRecvHi, HostRecvRaise, HostRecvDown,
           HostRecvLo, HostRecvLower
      <4> QED
        BY <2>2, <2>4, <4>1, <4>2 DEF PromptNext
    <3> QED
      BY <1>2, <2>1, <2>4, <3>1, LinkAssumption
         DEF HostStart, HostGoto, InSync, Lowered, TypeOK, Quiet, Expecting, SyncIdle,
             SyncSend, SyncSendUp, SyncSendMid, SyncSendDown, SyncRecvUp, SyncRecvHi,
             SyncRecvDown, SyncRecvLo
  <2> QED
    BY <1>2, <2>3, <2>4
<1> QED
  BY <1>1, <1>2, LoweredStep, PTL DEF Spec, InStepAgain
-----------------------------------------------------------------------------
\* The target abandons no command: it returns to its idle loop after the last
\* byte of a reply only (a byte that it ignores is never sent).
THEOREM CommandsKept == PromptSpec => NoCommandDropped
<1>1. ASSUME TypeOK, InSync, [PromptNext]_vars, tpc' = "idle", tpc # "idle"
      PROVE  tpc = "putDown" /\ tcnt + 1 >= RepLen[tcmd]
  <2> USE <1>1, LinkAssumption DEF TypeOK, Byte
  <2>0. PromptNext
    OBVIOUS
  <2>1. ~(HostStart \/ HostStep)
    BY DEF HostStart, HostStep, HostInitDone, HostSend, HostSendUp, HostSendMid,
           HostSendDown, HostRecvUp, HostRecvHi, HostRecvRaise, HostRecvDown,
           HostRecvLo, HostRecvLower
  <2>2. CASE TargetGetLower
    BY <2>2 DEF TargetGetLower, HostPC, InSync, Quiet, Expecting, Taking, Giving,
           SyncIdle, SyncSend, SyncSendUp, SyncSendMid, SyncSendDown,
           SyncRecvUp, SyncRecvHi, SyncRecvDown, SyncRecvLo
  <2>3. CASE TargetPutDown
    BY <2>3 DEF TargetPutDown
  <2>4. CASE TargetPutDownTimeout
    BY <2>4 DEF TargetPutDownTimeout, TargetTimeout, TargetGoto, HostIsLate,
           HostPC, InSync, Quiet, Expecting, Taking, Giving,
           SyncIdle, SyncSend, SyncSendUp, SyncSendMid, SyncSendDown,
           SyncRecvUp, SyncRecvHi, SyncRecvDown, SyncRecvLo
  <2>5. CASE TargetGetUpTimeout
    <3>1. FALSE
      BY <2>5 DEF TargetGetUpTimeout,
           TargetTimeout, TargetGoto, HostIsLate,
           HostPC, InSync, Quiet, Expecting, Taking, Giving,
           SyncIdle, SyncSend, SyncSendUp, SyncSendMid, SyncSendDown,
           SyncRecvUp, SyncRecvHi, SyncRecvDown, SyncRecvLo
    <3> QED
      BY <3>1
  <2>6. CASE TargetGetDownTimeout
    <3>1. FALSE
      BY <2>6 DEF TargetGetDownTimeout,
           TargetTimeout, TargetGoto, HostIsLate,
           HostPC, InSync, Quiet, Expecting, Taking, Giving,
           SyncIdle, SyncSend, SyncSendUp, SyncSendMid, SyncSendDown,
           SyncRecvUp, SyncRecvHi, SyncRecvDown, SyncRecvLo
    <3> QED
      BY <3>1
  <2>7. CASE TargetPutUpTimeout
    <3>1. FALSE
      BY <2>7 DEF TargetPutUpTimeout,
           TargetTimeout, TargetGoto, HostIsLate,
           HostPC, InSync, Quiet, Expecting, Taking, Giving,
           SyncIdle, SyncSend, SyncSendUp, SyncSendMid, SyncSendDown,
           SyncRecvUp, SyncRecvHi, SyncRecvDown, SyncRecvLo
    <3> QED
      BY <3>1
  <2>8. ~(\/ TargetHasByte
          \/ TargetGetUp \/ TargetGetHi \/ TargetGetRaise \/ TargetGetDown
          \/ TargetGetLo \/ TargetPut \/ TargetPutRaise \/ TargetPutUp
          \/ TargetPutLo \/ TargetPutLower)
    BY DEF TargetGoto, TargetHasByte, TargetGetUp, TargetGetHi,
           TargetGetRaise, TargetGetDown, TargetGetLo, TargetPut, TargetPutRaise,
           RaiseReply, TargetPutUp, TargetPutLo, TargetPutLower
  <2> QED
    BY <2>0, <2>1, <2>2, <2>3, <2>4, <2>5, <2>6, <2>7, <2>8 DEF PromptNext, TargetNext
<1> QED
  BY <1>1, Synchronised, PTL DEF PromptSpec, NoCommandDropped

-----------------------------------------------------------------------------
\* A step of the host is a step of the one-byte channel: a put (HostSend), a
\* get (HostRecvLower), or a stutter.
LEMMA HostStepPipe ==
    TypeOK /\ InSync /\ (HostStart \/ HostStep)
        => [Pipe!Next]_<<lineBar, tret, hret>>
<1> SUFFICES ASSUME TypeOK, InSync, HostStart \/ HostStep
             PROVE  [Pipe!Next]_<<lineBar, tret, hret>>
  OBVIOUS
<1> USE LinkAssumption DEF TypeOK, InSync, Quiet, Expecting, Taking, Giving, Byte,
        HostGoto, SyncIdle, SyncSend, SyncSendUp, SyncSendMid, SyncSendDown,
        SyncRecvUp, SyncRecvHi, SyncRecvDown, SyncRecvLo, lineBar
<1>1. CASE HostInitDone
  BY <1>1 DEF HostInitDone
<1>2. CASE HostStart
  BY <1>2 DEF HostStart
<1>3. CASE HostSend
  <2>1. Pipe!Put("target")
    BY <1>3 DEF HostSend, Pipe!Put
  <2> QED
    BY <2>1 DEF Pipe!Next
<1>4. CASE HostSendUp
  BY <1>4 DEF HostSendUp
<1>5. CASE HostSendMid
  BY <1>5 DEF HostSendMid
<1>6. CASE HostSendDown
  BY <1>6 DEF HostSendDown
<1>7. CASE HostRecvUp
  BY <1>7 DEF HostRecvUp
<1>8. CASE HostRecvHi
  BY <1>8 DEF HostRecvHi
<1>9. CASE HostRecvRaise
  BY <1>9 DEF HostRecvRaise
<1>10. CASE HostRecvDown
  BY <1>10 DEF HostRecvDown
<1>11. CASE HostRecvLo
  BY <1>11 DEF HostRecvLo
<1>12. CASE HostRecvLower
  <2>1. Pipe!HostGet
    BY <1>12 DEF HostRecvLower, Pipe!HostGet
  <2> QED
    BY <2>1 DEF Pipe!Next
<1> QED
  BY <1>1, <1>2, <1>3, <1>4, <1>5, <1>6, <1>7, <1>8, <1>9, <1>10, <1>11, <1>12 DEF HostStep

\* A step of the target is a step of the channel: a get (TargetGetLower), a put
\* (TargetPut), or a stutter.
LEMMA TargetStepPipe ==
    TypeOK /\ InSync /\ TargetNext => [Pipe!Next]_<<lineBar, tret, hret>>
<1> SUFFICES ASSUME TypeOK, InSync, TargetNext
             PROVE  [Pipe!Next]_<<lineBar, tret, hret>>
  OBVIOUS
<1> USE LinkAssumption DEF TypeOK, InSync, Quiet, Expecting, Taking, Giving, Byte,
        TargetGoto, SyncIdle, SyncSend, SyncSendUp, SyncSendMid, SyncSendDown,
        SyncRecvUp, SyncRecvHi, SyncRecvDown, SyncRecvLo, lineBar, HostPC
<1>1. CASE TargetHasByte
  BY <1>1 DEF TargetHasByte
<1>2. CASE TargetGetUp
  BY <1>2 DEF TargetGetUp
<1>3. CASE TargetGetHi
  BY <1>3 DEF TargetGetHi
<1>4. CASE TargetGetRaise
  BY <1>4 DEF TargetGetRaise
<1>5. CASE TargetGetDown
  BY <1>5 DEF TargetGetDown
<1>6. CASE TargetGetLo
  BY <1>6 DEF TargetGetLo
<1>7. CASE TargetGetLower
  <2>1. Pipe!TargetGet
    BY <1>7 DEF TargetGetLower, Pipe!TargetGet
  <2> QED
    BY <2>1 DEF Pipe!Next
<1>8. CASE TargetPut
  <2>1. Pipe!Put("host")
    BY <1>8 DEF TargetPut, Pipe!Put
  <2> QED
    BY <2>1 DEF Pipe!Next
<1>9. CASE TargetPutRaise
  BY <1>9 DEF TargetPutRaise, RaiseReply, HostStillPolls
<1>10. CASE TargetPutUp
  BY <1>10 DEF TargetPutUp
<1>11. CASE TargetPutLo
  BY <1>11 DEF TargetPutLo
<1>12. CASE TargetPutLower
  BY <1>12 DEF TargetPutLower
<1>13. CASE TargetPutDown
  BY <1>13 DEF TargetPutDown
<1>14. CASE TargetGetUpTimeout
  BY <1>14 DEF TargetGetUpTimeout, TargetTimeout, HostIsLate
<1>15. CASE TargetGetDownTimeout
  BY <1>15 DEF TargetGetDownTimeout, TargetTimeout, HostIsLate
<1>16. CASE TargetPutUpTimeout
  BY <1>16 DEF TargetPutUpTimeout, TargetTimeout, HostIsLate
<1>17. CASE TargetPutDownTimeout
  BY <1>17 DEF TargetPutDownTimeout, TargetTimeout, HostIsLate
<1> QED
  BY <1>1, <1>2, <1>3, <1>4, <1>5, <1>6, <1>7, <1>8, <1>9, <1>10, <1>11, <1>12, <1>13, <1>14, <1>15, <1>16, <1>17 DEF TargetNext

\* The handshake implements the one-byte channel: each byte written by one side
\* is read exactly once, with its value, by the other.
THEOREM Implements == PromptSpec => CarriesBytes
<1>1. Init => Pipe!Init
  BY LinkAssumption DEF Init, Pipe!Init, lineBar, Byte
<1>2. ASSUME TypeOK, InSync, [PromptNext]_vars
      PROVE  [Pipe!Next]_<<lineBar, tret, hret>>
  <2>1. CASE UNCHANGED vars
    BY <2>1 DEF lineBar
  <2> QED
    BY <1>2, <2>1, HostStepPipe, TargetStepPipe DEF PromptNext
<1> QED
  BY <1>1, <1>2, Synchronised, PTL DEF PromptSpec, CarriesBytes, Pipe!Spec
=============================================================================
