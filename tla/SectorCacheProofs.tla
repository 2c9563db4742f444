-------------------------- MODULE SectorCacheProofs --------------------------
(***************************************************************************)
(* What SectorCache promises, for every size of the stick, every set of    *)
(* contents, any number of ejections, and whatever core 1 and the callback *)
(* do between each other's steps.                                          *)
(***************************************************************************)
EXTENDS SectorCache, TLAPS

\* Types, and what the position of core 1 says of the call it is in.
Types == /\ TypeOK
         /\ pc \in {"setFlag", "prefetch"} => pfLba = sector + 1
         /\ cmd.kind = "none" => cmd = NoCmd
         /\ pc # "idle" => kind # "none"
         /\ pc \in {"wait", "lookup", "copy", "setLba", "setFlag", "prefetch"} => kind = "read"

\* Who will set a flag that is clear.  complete is cleared before its command is
\* submitted, and a stick that is out has no command: so whoever waits for
\* complete has had its command accepted, and that one was cut off or still runs.
Wake == /\ ~inserted => cmd.kind = "none"
        /\ pc = "waitUsb" /\ complete = 0 =>
              Transferring \/ cb = "complete" \/ (cut /\ cb = "none")
        /\ pfComplete = 0 /\ pc # "prefetch" => CallbackComes \/ cut

\* Where core 1 may be while the controller reads ahead.
Elsewhere == \/ pc \in {"idle", "wait"}
             \/ pc = "return" /\ kind = "read"
             \/ pc = "clear" /\ kind = "write"

\* What a transfer in progress says of core 1, and core 1 of the transfers, unless a
\* flag was cleared over a callback.
HandOver ==
    ~crossed =>
        /\ cmd.kind = "prefetch" => pfComplete = 0 /\ Elsewhere /\ cb \in {"none", "result"}
        /\ cmd.kind \in {"read", "write"} =>
               pc = "waitUsb" /\ complete = 0 /\ kind = cmd.kind /\ sector = cmd.sector
        /\ Transferring => cb # "complete"
        /\ cb = "complete" => \/ pc = "waitUsb" /\ complete = 0
                              \/ Elsewhere /\ pfComplete = 0
        /\ pc \in {"lookup", "copy"} => pfComplete = 1
        /\ pc = "submit" => complete = 0
        /\ pc = "prefetch" => pfComplete = 0 /\ ~CallbackComes

\* What result is once the callback is through.
Outcome == IF cb = "none" THEN result ELSE status

\* The data of a write: in the caller's buffer as long as the call lasts, and on the
\* stick from the end of a transfer that passed.
Writes ==
    kind = "write" /\ ~crossed =>
        /\ pc # "idle" => buff = data
        /\ ~outdated =>
              /\ pc = "waitUsb" /\ cb = "complete" /\ status = 0 => media[sector] = data
              /\ (pc = "waitUsb" /\ complete = 1) \/ pc = "return" =>
                     cb # "complete" /\ (Outcome = 0 => media[sector] = data)

\* prefetching_buff may be used: a stick is in and nothing fills the buffer, or
\* core 1 is past the wait, with the flag set.
Fetched == \/ inserted /\ pc \notin {"setFlag", "prefetch"} /\ cmd.kind # "prefetch"
           \/ ~crossed /\ pc \in {"wait", "lookup", "copy"} /\ pfComplete = 1

\* prefetching_buff holds the sector prefetching_lba names, unless it is marked as aged.
Ahead ==
    /\ Fetched /\ ~aged /\ pfLba \in Sectors => pfBuff = media[pfLba]
    /\ cmd.kind = "prefetch" => cmd.sector = pfLba \/ aged \/ pc = "setFlag"
    /\ cmd.kind = "write" /\ cmd.sector = pfLba => aged \/ pc = "setFlag"
    /\ pc = "prefetch" /\ Transferring => aged
    /\ inserted /\ cmd.kind = "inquiry" => aged
    /\ ~inserted => cb = "none" /\ cmd = NoCmd

\* The data of a read: the caller's buffer holds the sector of the call from the
\* transfer, or the copy, on.
Reads ==
    /\ pc = "copy" => pfLba = sector
    /\ kind = "read" /\ ~outdated /\ ~crossed =>
          /\ pc \in {"setLba", "setFlag", "prefetch", "return"} => buff = media[sector]
          /\ pc = "waitUsb" /\ (cb = "complete" \/ complete = 1) => buff = media[sector]
-----------------------------------------------------------------------------
(* Each part is kept by every step.                                        *)

\* Every step keeps the types.
LEMMA TypesStep == Types /\ [Next]_vars => Types'
<1> SUFFICES ASSUME Types, [Next]_vars PROVE Types'
  OBVIOUS
<1> USE CacheAssumption DEF Types, TypeOK, PC, Sectors, NoCmd, flags, core1, usb, plug, ghost,
                            Return, Goto
<1>1. CASE CallRead
  <2>1. outdated' \in BOOLEAN /\ crossed' \in BOOLEAN
    BY <1>1, Zenon DEF CallRead, BeginsCall
  <2>2. CASE inserted
    BY <1>1, <2>1, <2>2 DEF CallRead
  <2>3. CASE ~inserted
    BY <1>1, <2>1, <2>3 DEF CallRead
  <2> QED
    BY <2>2, <2>3
<1>2. CASE CallWrite
  <2>1. outdated' \in BOOLEAN /\ crossed' \in BOOLEAN
    BY <1>2, Zenon DEF CallWrite, BeginsCall
  <2>2. CASE inserted
    BY <1>2, <2>1, <2>2 DEF CallWrite
  <2>3. CASE ~inserted
    BY <1>2, <2>1, <2>3 DEF CallWrite
  <2> QED
    BY <2>2, <2>3
<1>3. CASE WaitPrefetch
  BY <1>3 DEF WaitPrefetch
<1>4. CASE Lookup
  BY <1>4 DEF Lookup
<1>5. CASE Copy
  BY <1>5 DEF Copy
<1>6. CASE Clear
  BY <1>6 DEF Clear
<1>7. CASE Submit
  BY <1>7 DEF Submit, Accepts
<1>8. CASE WaitUsb
  BY <1>8 DEF WaitUsb
<1>9. CASE SetLba
  BY <1>9 DEF SetLba
<1>10. CASE SetFlag
  BY <1>10 DEF SetFlag
<1>11. CASE Prefetch
  BY <1>11 DEF Prefetch, ReadsAhead, Accepts, Transferring, CallbackComes
<1>12. CASE ReturnResult
  BY <1>12 DEF ReturnResult
<1>13. CASE Transfer
  <2>1. aged' \in BOOLEAN /\ outdated' \in BOOLEAN
    BY <1>13, Zenon DEF Transfer
  <2> QED
    BY <1>13, <2>1 DEF Transfer, Transferring
<1>14. CASE CbComplete
  BY <1>14 DEF CbComplete
<1>15. CASE CbPrefetching
  <2>1. cut' \in BOOLEAN
    BY <1>15, Zenon DEF CbPrefetching
  <2> QED
    BY <1>15, <2>1 DEF CbPrefetching
<1>16. CASE CbResult
  BY <1>16 DEF CbResult
<1>17. CASE InquiryDone
  BY <1>17 DEF InquiryDone
<1>18. CASE Eject
  <2>1. inserted' \in BOOLEAN
    BY <1>18, Zenon DEF Eject, Transferring
  <2> QED
    BY <1>18, <2>1 DEF Eject, Transferring
<1>19. CASE Insert
  BY <1>19 DEF Insert
<1>20. CASE UNCHANGED vars
  BY <1>20 DEF vars
<1> QED
  BY <1>1, <1>2, <1>3, <1>4, <1>5, <1>6, <1>7, <1>8, <1>9, <1>10, <1>11, <1>12, <1>13,
     <1>14, <1>15, <1>16, <1>17, <1>18, <1>19, <1>20 DEF Next, Core0, Core1

\* Every step keeps Wake, whoever overtakes whom.
LEMMA WakeStep == Types /\ Wake /\ [Next]_vars => Wake'
<1> SUFFICES ASSUME Types /\ Wake, [Next]_vars PROVE Wake'
  OBVIOUS
<1> USE CacheAssumption DEF Types, TypeOK, PC, Sectors, NoCmd, flags, core1, usb, plug, ghost,
            Return, Goto, Transferring, CallbackComes, Wake
<1>1. CASE CallRead
  BY <1>1 DEF CallRead
<1>2. CASE CallWrite
  BY <1>2 DEF CallWrite
<1>3. CASE WaitPrefetch
  BY <1>3 DEF WaitPrefetch
<1>4. CASE Lookup
  BY <1>4 DEF Lookup
<1>5. CASE Copy
  BY <1>5 DEF Copy
<1>6. CASE Clear
  BY <1>6 DEF Clear
<1>7. CASE Submit
  BY <1>7 DEF Submit, Accepts
<1>8. CASE WaitUsb
  BY <1>8 DEF WaitUsb
<1>9. CASE SetLba
  BY <1>9 DEF SetLba
<1>10. CASE SetFlag
  BY <1>10 DEF SetFlag
<1>11. CASE Prefetch
  <2>1. CASE Accepts
    BY <1>11, <2>1 DEF Prefetch, ReadsAhead, Accepts
  <2>2. CASE ~Accepts
    BY <1>11, <2>2 DEF Prefetch, ReadsAhead, Accepts
  <2> QED
    BY <2>1, <2>2
<1>12. CASE ReturnResult
  BY <1>12 DEF ReturnResult
<1>13. CASE Transfer
  BY <1>13 DEF Transfer
<1>14. CASE CbComplete
  BY <1>14 DEF CbComplete
<1>15. CASE CbPrefetching
  BY <1>15 DEF CbPrefetching
<1>16. CASE CbResult
  BY <1>16 DEF CbResult
<1>17. CASE InquiryDone
  BY <1>17 DEF InquiryDone
<1>18. CASE Eject
  BY <1>18 DEF Eject
<1>19. CASE Insert
  BY <1>19 DEF Insert
<1>20. CASE UNCHANGED vars
  BY <1>20 DEF vars
<1> QED
  BY <1>1, <1>2, <1>3, <1>4, <1>5, <1>6, <1>7, <1>8, <1>9, <1>10, <1>11, <1>12, <1>13,
     <1>14, <1>15, <1>16, <1>17, <1>18, <1>19, <1>20 DEF Next, Core0, Core1

\* Every step keeps HandOver.
LEMMA HandOverStep == Types /\ HandOver /\ [Next]_vars => HandOver'
<1> SUFFICES ASSUME Types /\ HandOver, [Next]_vars PROVE HandOver'
  OBVIOUS
<1> USE CacheAssumption DEF Types, TypeOK, PC, Sectors, NoCmd, flags, core1, usb, plug, ghost,
            Return, Goto, Transferring, CallbackComes, Quiet, HandOver, Elsewhere
<1>1. CASE CallRead
  <2>1. CASE ~crossed
    <3>1. pc' \in {"idle", "wait"}
      BY <1>1 DEF CallRead
    <3> QED
      BY <1>1, <2>1, <3>1 DEF CallRead
  <2>2. CASE crossed
    <3>1. ~crossed' => Quiet
      BY <1>1, <2>2, Zenon DEF CallRead, BeginsCall
    <3> QED
      BY <1>1, <2>2, <3>1 DEF CallRead
  <2> QED
    BY <2>1, <2>2
<1>2. CASE CallWrite
  BY <1>2 DEF CallWrite, BeginsCall
<1>3. CASE WaitPrefetch
  BY <1>3 DEF WaitPrefetch
<1>4. CASE Lookup
  BY <1>4 DEF Lookup
<1>5. CASE Copy
  BY <1>5 DEF Copy
<1>6. CASE Clear
  BY <1>6 DEF Clear
<1>7. CASE Submit
  BY <1>7 DEF Submit, Accepts
<1>8. CASE WaitUsb
  BY <1>8 DEF WaitUsb
<1>9. CASE SetLba
  BY <1>9 DEF SetLba
<1>10. CASE SetFlag
  BY <1>10 DEF SetFlag
<1>11. CASE Prefetch
  <2>1. crossed' <=> crossed
    BY <1>11, Zenon DEF Prefetch, ReadsAhead
  <2>2. kind = "read" /\ kind' = "read"
    BY <1>11 DEF Prefetch
  <2>3. CASE Accepts
    BY <1>11, <2>1, <2>2, <2>3 DEF Prefetch
  <2>4. CASE ~Accepts
    BY <1>11, <2>1, <2>2, <2>4 DEF Prefetch
  <2> QED
    BY <2>3, <2>4
<1>12. CASE ReturnResult
  BY <1>12 DEF ReturnResult
<1>13. CASE Transfer
  BY <1>13 DEF Transfer
<1>14. CASE CbComplete
  BY <1>14 DEF CbComplete
<1>15. CASE CbPrefetching
  BY <1>15 DEF CbPrefetching
<1>16. CASE CbResult
  BY <1>16 DEF CbResult
<1>17. CASE InquiryDone
  BY <1>17 DEF InquiryDone
<1>18. CASE Eject
  BY <1>18 DEF Eject
<1>19. CASE Insert
  BY <1>19 DEF Insert
<1>20. CASE UNCHANGED vars
  BY <1>20 DEF vars
<1> QED
  BY <1>1, <1>2, <1>3, <1>4, <1>5, <1>6, <1>7, <1>8, <1>9, <1>10, <1>11, <1>12, <1>13,
     <1>14, <1>15, <1>16, <1>17, <1>18, <1>19, <1>20 DEF Next, Core0, Core1

\* Every step keeps Writes.
LEMMA WritesStep == Types /\ HandOver /\ Writes /\ [Next]_vars => Writes'
<1> SUFFICES ASSUME Types /\ HandOver /\ Writes, [Next]_vars PROVE Writes'
  OBVIOUS
<1> USE CacheAssumption DEF Types, TypeOK, PC, Sectors, NoCmd, flags, core1, usb, plug, ghost,
            Return, Goto, Transferring, CallbackComes, Quiet, HandOver, Elsewhere, Writes, Outcome
<1>1. CASE CallRead
  BY <1>1 DEF CallRead, BeginsCall
<1>2. CASE CallWrite
  BY <1>2 DEF CallWrite, BeginsCall
<1>3. CASE WaitPrefetch
  BY <1>3 DEF WaitPrefetch
<1>4. CASE Lookup
  BY <1>4 DEF Lookup
<1>5. CASE Copy
  BY <1>5 DEF Copy
<1>6. CASE Clear
  BY <1>6 DEF Clear
<1>7. CASE Submit
  BY <1>7 DEF Submit, Accepts
<1>8. CASE WaitUsb
  BY <1>8 DEF WaitUsb
<1>9. CASE SetLba
  BY <1>9 DEF SetLba
<1>10. CASE SetFlag
  BY <1>10 DEF SetFlag
<1>11. CASE Prefetch
  BY <1>11 DEF Prefetch, ReadsAhead, Accepts
<1>12. CASE ReturnResult
  BY <1>12 DEF ReturnResult
<1>13. CASE Transfer
  <2>1. CASE kind = "write" /\ ~crossed
    <3>1. cmd.kind # "read" /\ (cmd.kind = "write" => sector = cmd.sector /\ buff = data)
      BY <1>13, <2>1 DEF Transfer
    <3>2. buff' = buff /\ (cmd.kind # "write" => media' = media)
      BY <1>13, <3>1 DEF Transfer
    <3>3. cmd.kind = "write" /\ status' = 0 => media'[sector] = data
      BY <1>13, <3>1 DEF Transfer
    <3>4. ~outdated' => ~outdated
      BY <1>13, Zenon DEF Transfer
    <3> QED
      BY <1>13, <2>1, <3>2, <3>3, <3>4 DEF Transfer
  <2>2. CASE ~(kind = "write" /\ ~crossed)
    BY <1>13, <2>2 DEF Transfer
  <2> QED
    BY <2>1, <2>2
<1>14. CASE CbComplete
  BY <1>14 DEF CbComplete
<1>15. CASE CbPrefetching
  BY <1>15 DEF CbPrefetching
<1>16. CASE CbResult
  BY <1>16 DEF CbResult
<1>17. CASE InquiryDone
  BY <1>17 DEF InquiryDone
<1>18. CASE Eject
  BY <1>18 DEF Eject
<1>19. CASE Insert
  BY <1>19 DEF Insert
<1>20. CASE UNCHANGED vars
  BY <1>20 DEF vars
<1> QED
  BY <1>1, <1>2, <1>3, <1>4, <1>5, <1>6, <1>7, <1>8, <1>9, <1>10, <1>11, <1>12, <1>13,
     <1>14, <1>15, <1>16, <1>17, <1>18, <1>19, <1>20 DEF Next, Core0, Core1

\* Every step keeps Ahead.
LEMMA AheadStep == Types /\ HandOver /\ Ahead /\ [Next]_vars => Ahead'
<1> SUFFICES ASSUME Types /\ HandOver /\ Ahead, [Next]_vars PROVE Ahead'
  OBVIOUS
<1> USE CacheAssumption DEF Types, TypeOK, PC, Sectors, NoCmd, flags, core1, usb, plug, ghost,
            Return, Goto, Transferring, CallbackComes, Quiet, HandOver, Elsewhere, Fetched, Ahead
<1>1. CASE CallRead
  BY <1>1 DEF CallRead, BeginsCall
<1>2. CASE CallWrite
  BY <1>2 DEF CallWrite, BeginsCall
<1>3. CASE WaitPrefetch
  BY <1>3 DEF WaitPrefetch
<1>4. CASE Lookup
  BY <1>4 DEF Lookup
<1>5. CASE Copy
  BY <1>5 DEF Copy
<1>6. CASE Clear
  BY <1>6 DEF Clear
<1>7. CASE Submit
  BY <1>7 DEF Submit, Accepts
<1>8. CASE WaitUsb
  BY <1>8 DEF WaitUsb
<1>9. CASE SetLba
  BY <1>9 DEF SetLba
<1>10. CASE SetFlag
  BY <1>10 DEF SetFlag
<1>11. CASE Prefetch
  BY <1>11 DEF Prefetch, ReadsAhead, Accepts
<1>12. CASE ReturnResult
  BY <1>12 DEF ReturnResult
<1>13. CASE Transfer
  BY <1>13 DEF Transfer
<1>14. CASE CbComplete
  BY <1>14 DEF CbComplete
<1>15. CASE CbPrefetching
  BY <1>15 DEF CbPrefetching
<1>16. CASE CbResult
  BY <1>16 DEF CbResult
<1>17. CASE InquiryDone
  BY <1>17 DEF InquiryDone
<1>18. CASE Eject
  BY <1>18 DEF Eject
<1>19. CASE Insert
  BY <1>19 DEF Insert
<1>20. CASE UNCHANGED vars
  BY <1>20 DEF vars
<1> QED
  BY <1>1, <1>2, <1>3, <1>4, <1>5, <1>6, <1>7, <1>8, <1>9, <1>10, <1>11, <1>12, <1>13,
     <1>14, <1>15, <1>16, <1>17, <1>18, <1>19, <1>20 DEF Next, Core0, Core1

\* Every step keeps Reads.
LEMMA ReadsStep == Types /\ HandOver /\ Ahead /\ Reads /\ [Next]_vars => Reads'
<1> SUFFICES ASSUME Types /\ HandOver /\ Ahead /\ Reads, [Next]_vars PROVE Reads'
  OBVIOUS
<1> USE CacheAssumption DEF Types, TypeOK, PC, Sectors, NoCmd, flags, core1, usb, plug, ghost,
            Return, Goto, Transferring, CallbackComes, Quiet, HandOver, Elsewhere, Fetched, Ahead, Reads
<1>1. CASE CallRead
  BY <1>1 DEF CallRead, BeginsCall
<1>2. CASE CallWrite
  BY <1>2 DEF CallWrite, BeginsCall
<1>3. CASE WaitPrefetch
  BY <1>3 DEF WaitPrefetch
<1>4. CASE Lookup
  BY <1>4 DEF Lookup
<1>5. CASE Copy
  BY <1>5 DEF Copy
<1>6. CASE Clear
  BY <1>6 DEF Clear
<1>7. CASE Submit
  BY <1>7 DEF Submit, Accepts
<1>8. CASE WaitUsb
  BY <1>8 DEF WaitUsb
<1>9. CASE SetLba
  BY <1>9 DEF SetLba
<1>10. CASE SetFlag
  BY <1>10 DEF SetFlag
<1>11. CASE Prefetch
  BY <1>11 DEF Prefetch, ReadsAhead, Accepts
<1>12. CASE ReturnResult
  BY <1>12 DEF ReturnResult
<1>13. CASE Transfer
  BY <1>13 DEF Transfer
<1>14. CASE CbComplete
  BY <1>14 DEF CbComplete
<1>15. CASE CbPrefetching
  BY <1>15 DEF CbPrefetching
<1>16. CASE CbResult
  BY <1>16 DEF CbResult
<1>17. CASE InquiryDone
  BY <1>17 DEF InquiryDone
<1>18. CASE Eject
  BY <1>18 DEF Eject
<1>19. CASE Insert
  BY <1>19 DEF Insert
<1>20. CASE UNCHANGED vars
  BY <1>20 DEF vars
<1> QED
  BY <1>1, <1>2, <1>3, <1>4, <1>5, <1>6, <1>7, <1>8, <1>9, <1>10, <1>11, <1>12, <1>13,
     <1>14, <1>15, <1>16, <1>17, <1>18, <1>19, <1>20 DEF Next, Core0, Core1

-----------------------------------------------------------------------------
(* The invariants.                                                         *)

\* The flags are set and nothing runs when the adapter starts.
LEMMA Start == Init => Types /\ Wake /\ HandOver /\ Writes /\ Ahead /\ Reads
<1> SUFFICES ASSUME Init PROVE Types /\ Wake /\ HandOver /\ Writes /\ Ahead /\ Reads
  OBVIOUS
<1> USE CacheAssumption DEF Init, NoCmd, Sectors
<1>1. inserted \in BOOLEAN /\ cut \in BOOLEAN /\ aged \in BOOLEAN /\ outdated \in BOOLEAN
      /\ crossed \in BOOLEAN
  BY Zenon
<1>2. TypeOK
  BY <1>1 DEF TypeOK, PC
<1>3. Types
  BY <1>2 DEF Types
<1>4. Wake /\ HandOver
  BY DEF Wake, HandOver, Elsewhere, Transferring, CallbackComes
<1>5. Writes /\ Ahead /\ Reads
  BY DEF Writes, Ahead, Reads, Fetched
<1> QED
  BY <1>3, <1>4, <1>5

\* Types holds in every state.
LEMMA TypesHold == Spec => []Types
BY Start, TypesStep, PTL DEF Spec

\* Only the last access of a call returns result.
LEMMA ReturnsAtReturn ==
    Types /\ Next /\ pc # "idle" /\ pc' = "idle" /\ ret' = 0 => ReturnResult
<1> SUFFICES ASSUME Next, pc # "idle", pc' = "idle", ret' = 0 PROVE ReturnResult
  OBVIOUS
<1> QED
  BY DEF Next, Core1, Core0, CallRead, CallWrite, WaitPrefetch, Lookup, Copy, Clear,
         Submit, WaitUsb, SetLba, SetFlag, Prefetch, Transfer, CbComplete, CbPrefetching,
         CbResult, InquiryDone, Eject, Insert, Goto, Return, core1

\* The words the two cores share, the buffers and the stick keep their types: above
\* all, prefetching_lba is one past the last sector at most.
THEOREM TypesKept == Spec => []TypeOK
<1>1. Types => TypeOK
  BY DEF Types
<1> QED
  BY <1>1, TypesHold, PTL

\* No wake-up is lost, however the steps of core 1 lie between the assignments of
\* the callback, unless the removal of the stick has cut the transfer off.
THEOREM NoWakeUpIsLost == Spec => []WakeUpComes
<1>1. Types /\ Wake /\ [Next]_vars => (Types /\ Wake)'
  BY TypesStep, WakeStep
<1>2. Types /\ Wake => WakeUpComes
  BY DEF Wake, WakeUpComes
<1> QED
  BY Start, <1>1, <1>2, PTL DEF Spec

\* A flag that core 1 has seen means what it stands for, whatever fails or is pulled
\* out, unless core 1 had cleared it over a callback: the controller fills neither
\* buffer while core 1 uses it.
THEOREM BuffersAreHandedOver == Spec => []BufferHandOver
<1>1. Types /\ HandOver /\ [Next]_vars => (Types /\ HandOver)'
  BY TypesStep, HandOverStep
<1>2. Types /\ HandOver => BufferHandOver
  BY DEF HandOver, Elsewhere, BufferHandOver
<1> QED
  BY Start, <1>1, <1>2, PTL DEF Spec

\* A write_sector that reports success has its data on the stick, and nobody else
\* changes the stick, whatever fails and however the cores interleave, with the three
\* exceptions WritesMedia names.
THEOREM WritesReachTheStick == Spec => WritesMedia
<1> DEFINE IInv == Types /\ HandOver /\ Writes
<1>1. IInv /\ [Next]_vars => IInv'
  BY TypesStep, HandOverStep, WritesStep
<1>2. IInv /\ [Next]_vars =>
        [/\ /\ pc # "idle" /\ pc' = "idle" /\ kind = "write" /\ ret' = 0
            /\ ~outdated /\ ~crossed /\ cb = "none"
            => media[sector] = data
         /\ \A s \in Sectors : media'[s] # media[s] /\ inserted /\ ~crossed =>
              kind = "write" /\ sector = s /\ media'[s] = data]_vars
  <2> SUFFICES ASSUME IInv, Next
               PROVE  /\ /\ pc # "idle" /\ pc' = "idle" /\ kind = "write" /\ ret' = 0
                         /\ ~outdated /\ ~crossed /\ cb = "none"
                         => media[sector] = data
                      /\ \A s \in Sectors : media'[s] # media[s] /\ inserted /\ ~crossed =>
                            kind = "write" /\ sector = s /\ media'[s] = data
    OBVIOUS
  <2>1. ASSUME pc # "idle", pc' = "idle", kind = "write", ret' = 0,
               ~outdated, ~crossed, cb = "none"
        PROVE  media[sector] = data
    <3>1. pc = "return" /\ result = 0
      BY <2>1, ReturnsAtReturn DEF ReturnResult, Return
    <3> QED
      BY <2>1, <3>1 DEF Writes, Outcome
  <2>2. ASSUME NEW s \in Sectors, media'[s] # media[s], inserted, ~crossed
        PROVE  kind = "write" /\ sector = s /\ media'[s] = data
    <3>1. Transfer
      BY <2>2 DEF Next, Core1, Core0, CallRead, CallWrite, WaitPrefetch, Lookup, Copy, Clear,
           Submit, WaitUsb, SetLba, SetFlag, Prefetch, ReturnResult, CbComplete, CbPrefetching,
           CbResult, InquiryDone, Eject, Insert, usb
    <3>2. cmd.kind = "write" /\ cmd.sector \in Sectors
          /\ media' = [media EXCEPT ![cmd.sector] = buff]
      BY <2>2, <3>1 DEF Transfer
    <3> QED
      BY <2>2, <3>2 DEF HandOver, Writes, Types, TypeOK
  <2> QED
    BY <2>1, <2>2
<1> QED
  BY Start, <1>1, <1>2, PTL DEF Spec, WritesMedia

\* A read_sector that reports success has delivered what is on the stick, whatever
\* fails and however the cores interleave, with the exceptions ReadReturnsMedia names.
THEOREM ReadsReturnTheStick == Spec => ReadReturnsMedia
<1> DEFINE IInv == Types /\ HandOver /\ Ahead /\ Reads
<1>1. IInv /\ [Next]_vars => IInv'
  BY TypesStep, HandOverStep, AheadStep, ReadsStep
<1>2. IInv /\ [Next]_vars =>
        [/\ pc # "idle" /\ pc' = "idle" /\ kind = "read" /\ ret' = 0
         /\ ~outdated /\ ~crossed
         => buff = media[sector]]_vars
  <2> SUFFICES ASSUME IInv, Next,
                      pc # "idle", pc' = "idle", kind = "read", ret' = 0, ~outdated, ~crossed
               PROVE  buff = media[sector]
    OBVIOUS
  <2>1. pc = "return"
    BY ReturnsAtReturn DEF ReturnResult
  <2> QED
    BY <2>1 DEF Reads
<1> QED
  BY Start, <1>1, <1>2, PTL DEF Spec, ReadReturnsMedia
=============================================================================
