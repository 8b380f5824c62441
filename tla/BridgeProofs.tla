---------------------------- MODULE BridgeProofs ----------------------------
(***************************************************************************)
(* A cycle of the 68k gets its own answer over the bridge and is served    *)
(* once, for a watchdog of any length and for any number of cycles and of  *)
(* daemon starts.                                                          *)
(***************************************************************************)
EXTENDS Bridge, SequenceTheorems, TLAPS

\* The leaves are first-order; those with arithmetic, or with many cases, name SMT.
USE ZenonT(30)

Serving == pc \in {"addr", "rw", "data", "chip", "result", "done"}

\* A request is up, or being served, only while the FPGA waits for it; what
\* the ARM has read of it and what it answers belong to the current cycle.
RequestCurrent ==
    /\ new_req => state = "WAIT_ARM"
    /\ state = "WAIT_ARM" => bridge = n
    /\ Serving => state = "WAIT_ARM" /\ ~done
    /\ pc \in {"chip", "result"} => seen["data"] = n
    /\ pc = "done" => result = n

\* DONE is set for the current cycle, and is on its way out when taken.
DoneCurrent ==
    /\ done /\ ~done_clr => state = "WAIT_ARM" /\ result = n
    /\ done_clr => state = "RELEASE"
    /\ done /\ clocked => done_clr

AnswerCurrent ==
    /\ dtack => state = "RELEASE"
    /\ state = "RELEASE" => data_out = n

Tie == RequestCurrent /\ DoneCurrent /\ AnswerCurrent

\* seen stays a record of the three registers.
SeenFields == seen \in [Fields -> Cycles] /\ bridge \in Cycles /\ n \in Cycles

IInv == SeenFields /\ (~late => Tie)

\* The bridge as it comes out of reset, with the daemon just started.
LEMMA InitEstablishes == Init => IInv
  BY SMT, BoundsAssumption
     DEF Init, IInv, Tie, RequestCurrent, DoneCurrent, AnswerCurrent, Serving,
         SeenFields, Unread, Cycles

\* What the ARM has read are numbers of cycles.
LEMMA SeenKept == SeenFields /\ [Next]_vars => SeenFields'
<1> SUFFICES ASSUME SeenFields, [Next]_vars PROVE SeenFields'
  OBVIOUS
<1> USE DEF SeenFields
<1>1. CASE HostStart
  BY SMT, <1>1, BoundsAssumption DEF HostStart, Cycles, fpgaVars, armVars
<1>2. CASE StIdle
  BY <1>2 DEF StIdle, Tick, busVars, armVars
<1>3. ASSUME NEW f \in Fields, NEW to, Read(f, to) PROVE SeenFields'
  BY <1>3 DEF Read, busVars, fpgaVars
<1>4. CASE WriteDone \/ Die
  <2>1. Unread \in [Fields -> Cycles]
    BY SMT, BoundsAssumption DEF Unread, Cycles
  <2>2. seen' = Unread /\ UNCHANGED <<bridge, n>>
    BY <1>4 DEF WriteDone, Die, busVars, fpgaVars
  <2>3. QED  BY <2>1, <2>2
<1>5. CASE UNCHANGED <<seen, bridge, n>>
  BY <1>5
<1>6. QED
  BY <1>1, <1>2, <1>3, <1>4, <1>5
     DEF Next, Clock, Serve, vars, busVars, fpgaVars, armVars, HostEnd, StWaitArm,
         StRelease, StBerr, Tick, Poll, CallChip, WriteResult, Restart, Fields

\* Answer, request and cycle stay tied together until the watchdog runs out on
\* a daemon in the middle of a request.
LEMMA TieKept == SeenFields /\ Tie /\ [Next]_vars /\ ~late' => Tie'
<1> SUFFICES ASSUME SeenFields, Tie, [Next]_vars, ~late' PROVE Tie'
  OBVIOUS
<1> USE DEF Tie, RequestCurrent, DoneCurrent, AnswerCurrent, Serving
<1>1. CASE HostStart
  BY <1>1 DEF HostStart, busVars, fpgaVars, armVars
<1>2. CASE HostEnd
  BY <1>2 DEF HostEnd, busVars, fpgaVars, armVars
<1>3. CASE StIdle
  BY <1>3 DEF StIdle, Tick, busVars, fpgaVars, armVars
<1>4. CASE StWaitArm
  <2>1. state = "WAIT_ARM" /\ UNCHANGED <<n, result, pc, seen, bridge, dtack>>
    BY <1>4 DEF StWaitArm, Tick, busVars, armVars
  <2>2. ~dtack /\ ~done_clr /\ clocked' /\ (done' <=> done)
    BY <1>4, <2>1 DEF StWaitArm, Tick
  <2>3. CASE done
    BY <1>4, <2>1, <2>2, <2>3 DEF StWaitArm
  <2>4. CASE ~done
    <3>1. UNCHANGED <<data_out, done_clr>>
      BY <1>4, <2>4 DEF StWaitArm
    <3>2. \/ UNCHANGED <<state, new_req>>
          \/ state' = "BERR" /\ ~new_req' /\ pc \in {"poll", "dead"}
      BY <1>4, <2>4 DEF StWaitArm
    <3>3. QED  BY <2>1, <2>2, <2>4, <3>1, <3>2
  <2>5. QED  BY <2>3, <2>4
<1>5. CASE StRelease
  BY <1>5 DEF StRelease, Tick, busVars, fpgaVars, armVars
<1>6. CASE StBerr
  BY <1>6 DEF StBerr, Tick, busVars, fpgaVars, armVars
<1>7. CASE Poll
  BY <1>7 DEF Poll, busVars, fpgaVars, armVars
<1>8. CASE Read("addr", "rw") \/ Read("rw", "data") \/ Read("data", "chip")
  <2>1. UNCHANGED <<n, state, done, done_clr, clocked, result, new_req, bridge,
                    dtack, data_out>>
    BY <1>8 DEF Read, busVars, fpgaVars
  <2>2. Serving /\ pc' # "done" /\ pc' # "result"
    BY <1>8 DEF Read
  <2>3. pc' = "chip" => seen'["data"] = bridge
    BY <1>8 DEF Read, SeenFields, Fields
  <2>4. QED  BY <2>1, <2>2, <2>3
<1>9. CASE CallChip
  BY <1>9 DEF CallChip, busVars, fpgaVars, armVars
<1>10. CASE WriteResult
  BY <1>10 DEF WriteResult, busVars, fpgaVars, armVars
<1>11. CASE WriteDone
  BY <1>11 DEF WriteDone, busVars, fpgaVars, armVars
<1>12. CASE Die
  BY <1>12 DEF Die, busVars, fpgaVars, armVars
<1>13. CASE Restart
  BY <1>13 DEF Restart, busVars, fpgaVars, armVars
<1>14. CASE UNCHANGED vars
  BY <1>14 DEF vars, busVars, fpgaVars, armVars
<1>15. QED
  BY <1>1, <1>2, <1>3, <1>4, <1>5, <1>6, <1>7, <1>8, <1>9, <1>10, <1>11, <1>12,
     <1>13, <1>14
     DEF Next, Clock, Serve, Fields

\* Once it has run out, that is not forgotten.
LEMMA LateStays == [Next]_vars /\ late => late'
  BY DEF Next, Clock, Serve, vars, HostStart, HostEnd, StIdle, StWaitArm, StRelease,
         StBerr, Poll, Read, CallChip, WriteResult, WriteDone, Die, Restart

\* A cycle that ends with DTACK gets its own answer, unless BERR has hit a
\* daemon in the middle of a request.
THEOREM AnswersAreOwn == Spec => []OwnAnswer
<1>1. IInv /\ [Next]_vars => IInv'
  BY SeenKept, TieKept, LateStays DEF IInv
<1>2. IInv => OwnAnswer
  BY DEF IInv, Tie, OwnAnswer, AnswerCurrent
<1>3. QED
  BY <1>1, <1>2, InitEstablishes, PTL DEF Spec

-----------------------------------------------------------------------------
(* What has been given to the chip.                                        *)

\* The request of cycle c, its three registers read in that cycle.
Whole(c) == [f \in Fields |-> c]

ServedTypes ==
    /\ served \in Seq([life : Nat, req : [Fields -> Cycles]])
    /\ life \in Nat

\* The registers the ARM has read are those of the current cycle.
ReadCurrent ==
    /\ as \/ state # "IDLE" => n > 0
    /\ pc \in {"rw", "data"} => seen["addr"] = n
    /\ pc = "data" => seen["rw"] = n
    /\ pc \in {"chip", "result", "done"} => seen = Whole(n)

\* What was served is a cycle that has begun, in a life that has begun, and
\* differs from all else that was served.
ServedWhole ==
    /\ \A k \in 1 .. Len(served) :
         served[k].life <= life /\ \E c \in 1 .. n : served[k].req = Whole(c)
    /\ \A j, k \in 1 .. Len(served) : served[j] = served[k] => j = k

\* A cycle served in this life of the daemon is past the point where its
\* request could be taken again.
TakenOnce ==
    (\E k \in 1 .. Len(served) : served[k] = [life |-> life, req |-> Whole(n)]) =>
        \/ pc \in {"result", "done", "dead"}
        \/ done /\ state = "WAIT_ARM"
        \/ state \in {"RELEASE", "BERR"}
        \/ state = "IDLE" /\ ~as

\* A cycle that is being answered has been served.
AnsweredServed ==
    pc \in {"result", "done"} \/ (done /\ ~done_clr) \/ state = "RELEASE" =>
        \E k \in 1 .. Len(served) : served[k].req["data"] = n

OnceInv == ReadCurrent /\ ServedWhole /\ TakenOnce /\ AnsweredServed

\* The types of what was served.
LEMMA ServedTyped == SeenFields /\ ServedTypes /\ [Next]_vars => ServedTypes'
<1> SUFFICES ASSUME SeenFields, ServedTypes, [Next]_vars PROVE ServedTypes'
  OBVIOUS
<1>1. CASE CallChip
  <2> DEFINE S == [life : Nat, req : [Fields -> Cycles]]
             e == [life |-> life, req |-> seen]
  <2>1. e \in S /\ served \in Seq(S) /\ life \in Nat
    BY DEF SeenFields, ServedTypes
  <2>2. served' = Append(served, e) /\ life' = life
    BY <1>1 DEF CallChip
  <2> HIDE DEF S, e
  <2>3. served' \in Seq(S)  BY <2>1, <2>2, AppendProperties
  <2>4. QED  BY <2>1, <2>2, <2>3 DEF S, ServedTypes
<1>2. CASE Restart
  BY SMT, <1>2 DEF Restart, ServedTypes
<1>3. CASE UNCHANGED <<served, life>>
  BY <1>3 DEF ServedTypes
<1>4. QED
  BY <1>1, <1>2, <1>3
     DEF Next, Clock, Serve, vars, armVars, HostStart, HostEnd, StIdle, StWaitArm, StRelease,
         StBerr, Tick, Poll, Read, WriteResult, WriteDone, Die

\* A step that serves nothing, starts no cycle and no life keeps OnceInv if it
\* keeps what was read, answered and taken where it belongs.
LEMMA QuietKeepsOnce ==
    ASSUME OnceInv, UNCHANGED <<n, life, served>>, ReadCurrent',
           pc' \in {"result", "done"} \/ (done' /\ ~done_clr') \/ state' = "RELEASE" =>
             pc \in {"result", "done"} \/ (done /\ ~done_clr) \/ state = "RELEASE",
           \/ pc \in {"result", "done", "dead"}
           \/ done /\ state = "WAIT_ARM"
           \/ state \in {"RELEASE", "BERR"}
           \/ state = "IDLE" /\ ~as
           =>
           \/ pc' \in {"result", "done", "dead"}
           \/ done' /\ state' = "WAIT_ARM"
           \/ state' \in {"RELEASE", "BERR"}
           \/ state' = "IDLE" /\ ~as'
    PROVE  OnceInv'
<1>1. ServedWhole'  BY DEF OnceInv, ServedWhole
<1>2. TakenOnce'  BY DEF OnceInv, TakenOnce
<1>3. AnsweredServed'  BY DEF OnceInv, AnsweredServed
<1>4. QED  BY <1>1, <1>2, <1>3 DEF OnceInv

\* OnceInv is inductive, beside the ties of a request to its cycle.
LEMMA OnceKept ==
    SeenFields /\ ServedTypes /\ Tie /\ OnceInv /\ [Next]_vars /\ ~late' => OnceInv'
<1> SUFFICES ASSUME SeenFields, ServedTypes, Tie, OnceInv, [Next]_vars, ~late' PROVE OnceInv'
  OBVIOUS
<1>0. n \in Nat /\ life \in Nat /\ Len(served) \in Nat
  BY SMT, LenProperties, BoundsAssumption DEF SeenFields, Cycles, ServedTypes
<1>1. CASE HostStart
  <2>1. /\ state = "IDLE" /\ n' = n + 1 /\ as'
        /\ UNCHANGED <<state, done, done_clr, pc, seen, life, served>>
    BY <1>1 DEF HostStart, fpgaVars, armVars
  <2>2. ~Serving /\ ~(done /\ ~done_clr)
    BY <2>1 DEF Tie, RequestCurrent, DoneCurrent
  <2>3. ReadCurrent'
    BY SMT, <1>0, <2>1, <2>2 DEF ReadCurrent, Serving
  <2>4. ServedWhole'
    BY SMT, <1>0, <2>1 DEF OnceInv, ServedWhole
  <2>5. ASSUME NEW k \in 1 .. Len(served) PROVE served[k].req # Whole(n + 1)
    <3>1. PICK c \in 1 .. n : served[k].req = Whole(c)
      BY DEF OnceInv, ServedWhole
    <3>2. Whole(c)["data"] = c /\ Whole(n + 1)["data"] = n + 1
      BY DEF Whole, Fields
    <3>3. QED  BY SMT, <1>0, <3>1, <3>2
  <2>6. TakenOnce'
    BY SMT, <2>1, <2>5 DEF TakenOnce
  <2>7. AnsweredServed'
    BY <2>1, <2>2 DEF AnsweredServed, Serving
  <2>8. QED  BY <2>3, <2>4, <2>6, <2>7 DEF OnceInv
<1>2. CASE HostEnd
  BY <1>2, QuietKeepsOnce DEF HostEnd, fpgaVars, armVars, OnceInv, ReadCurrent
<1>3. CASE StIdle
  <2>1. /\ state = "IDLE" /\ ~done_clr' /\ (done' <=> done /\ ~done_clr)
        /\ IF as THEN state' = "WAIT_ARM" ELSE state' = state
        /\ UNCHANGED <<n, as, pc, seen, life, served>>
    BY <1>3 DEF StIdle, Tick, busVars, armVars
  <2>2. ~Serving /\ ~(done /\ ~done_clr)
    BY <2>1 DEF Tie, RequestCurrent, DoneCurrent
  <2>3. QED
    BY <2>1, <2>2, QuietKeepsOnce DEF OnceInv, ReadCurrent, Serving
<1>4. CASE StWaitArm
  <2>1. /\ state = "WAIT_ARM" /\ (done' <=> done /\ ~done_clr)
        /\ UNCHANGED <<n, as, pc, seen, life, served>>
    BY <1>4 DEF StWaitArm, Tick, busVars, armVars
  <2>2. ~done_clr  BY <2>1 DEF Tie, DoneCurrent
  <2>3. \/ done /\ state' = "RELEASE" /\ done_clr'
        \/ ~done /\ state' \in {"WAIT_ARM", "BERR"} /\ done_clr' = done_clr
    BY <1>4, <2>1 DEF StWaitArm
  <2>4. QED
    BY <2>1, <2>2, <2>3, QuietKeepsOnce DEF OnceInv, ReadCurrent
<1>5. CASE StRelease \/ StBerr
  <2>1. /\ state \in {"RELEASE", "BERR"} /\ ~done_clr' /\ (done' <=> done /\ ~done_clr)
        /\ IF as THEN state' = state ELSE state' = "IDLE"
        /\ UNCHANGED <<n, as, pc, seen, life, served>>
    BY <1>5 DEF StRelease, StBerr, Tick, busVars, armVars
  <2>2. ~Serving  BY <2>1 DEF Tie, RequestCurrent
  <2>3. QED
    BY <2>1, <2>2, QuietKeepsOnce DEF OnceInv, ReadCurrent, Serving
<1>6. CASE Poll
  <2>1. /\ pc = "poll" /\ new_req /\ clocked /\ pc' = "addr"
        /\ UNCHANGED <<n, as, state, done, done_clr, seen, life, served>>
    BY <1>6 DEF Poll, busVars, fpgaVars
  <2>2. state = "WAIT_ARM" /\ ~done
    BY <2>1 DEF Tie, RequestCurrent, DoneCurrent
  <2>3. QED
    BY <2>1, <2>2, QuietKeepsOnce DEF OnceInv, ReadCurrent
<1>7. CASE Read("addr", "rw") \/ Read("rw", "data") \/ Read("data", "chip")
  <2>1. /\ UNCHANGED <<n, as, state, done, done_clr, bridge, life, served>>
        /\ pc \in {"addr", "rw", "data"} /\ pc' \in {"rw", "data", "chip"}
    BY <1>7 DEF Read, busVars, fpgaVars
  <2>2. bridge = n /\ state = "WAIT_ARM" /\ ~done
    BY <2>1 DEF Tie, RequestCurrent, Serving
  <2>3. ReadCurrent'
    <3>1. CASE Read("addr", "rw")
      BY <2>1, <2>2, <3>1 DEF Read, OnceInv, ReadCurrent, SeenFields, Fields
    <3>2. CASE Read("rw", "data")
      BY <2>1, <2>2, <3>2 DEF Read, OnceInv, ReadCurrent, SeenFields, Fields
    <3>3. CASE Read("data", "chip")
      <4>1. pc' = "chip" /\ seen["addr"] = n /\ seen["rw"] = n
            /\ seen' = [seen EXCEPT !["data"] = n]
        BY <2>2, <3>3 DEF Read, OnceInv, ReadCurrent
      <4>2. seen' = Whole(n)
        BY <4>1 DEF SeenFields, Fields, Whole
      <4>3. QED  BY <2>1, <4>1, <4>2 DEF OnceInv, ReadCurrent
    <3>4. QED  BY <1>7, <3>1, <3>2, <3>3
  <2>4. QED  BY <2>1, <2>2, <2>3, QuietKeepsOnce
<1>8. CASE CallChip
  <2> DEFINE e == [life |-> life, req |-> Whole(n)]
             S == [life : Nat, req : [Fields -> Cycles]]
  <2>1. /\ pc = "chip" /\ pc' = "result" /\ seen = Whole(n)
        /\ served' = Append(served, e)
        /\ UNCHANGED <<n, as, state, done, done_clr, seen, life>>
    BY <1>8 DEF CallChip, busVars, fpgaVars, OnceInv, ReadCurrent
  <2>2. state = "WAIT_ARM" /\ ~done /\ n > 0
    BY <2>1 DEF Tie, RequestCurrent, Serving, OnceInv, ReadCurrent
  <2>3. served \in Seq(S) /\ e \in S
    BY DEF ServedTypes, SeenFields, Whole
  <2>4. /\ Len(served') = Len(served) + 1
        /\ \A k \in 1 .. Len(served) : served'[k] = served[k]
        /\ served'[Len(served) + 1] = e
    <3> HIDE DEF S, e
    <3>1. QED  BY SMT, <2>1, <2>3, AppendProperties
  <2>5. \A k \in 1 .. Len(served) : served[k] # e
    BY <2>1, <2>2 DEF OnceInv, TakenOnce
  <2>6. e.life = life /\ e.req = Whole(n) /\ e.req["data"] = n
    BY DEF Whole, Fields
  <2> HIDE DEF e
  <2>7. ServedWhole'
    BY SMT, <1>0, <2>1, <2>2, <2>4, <2>5, <2>6 DEF OnceInv, ServedWhole
  <2>8. AnsweredServed'
    BY SMT, <1>0, <2>1, <2>4, <2>6 DEF AnsweredServed
  <2>9. QED
    BY <2>1, <2>7, <2>8 DEF OnceInv, ReadCurrent, TakenOnce
<1>9. CASE WriteResult
  <2>1. /\ pc = "result" /\ pc' = "done"
        /\ UNCHANGED <<n, as, state, done, done_clr, seen, life, served>>
    BY <1>9 DEF WriteResult, busVars, fpgaVars
  <2>2. QED  BY <2>1, QuietKeepsOnce DEF OnceInv, ReadCurrent
<1>10. CASE WriteDone
  <2>1. /\ pc = "done" /\ pc' = "poll" /\ done'
        /\ UNCHANGED <<n, as, state, done_clr, life, served>>
    BY <1>10 DEF WriteDone, busVars, fpgaVars
  <2>2. state = "WAIT_ARM"  BY <2>1 DEF Tie, RequestCurrent, Serving
  <2>3. QED  BY <2>1, <2>2, QuietKeepsOnce DEF OnceInv, ReadCurrent
<1>11. CASE Die
  <2>1. pc' = "dead" /\ UNCHANGED <<n, as, state, done, done_clr, life, served>>
    BY <1>11 DEF Die, busVars, fpgaVars
  <2>2. QED  BY <2>1, QuietKeepsOnce DEF OnceInv, ReadCurrent
<1>12. CASE Restart
  <2>1. /\ pc = "dead" /\ pc' = "poll" /\ life' = life + 1
        /\ UNCHANGED <<n, as, state, done, done_clr, seen, served>>
    BY <1>12 DEF Restart, busVars, fpgaVars
  <2>2. ServedWhole' /\ TakenOnce'
    <3>1. \A k \in 1 .. Len(served) : served[k].life \in Nat
      <4> DEFINE S == [life : Nat, req : [Fields -> Cycles]]
      <4>1. served \in Seq(S)  BY DEF ServedTypes
      <4>2. \A k \in 1 .. Len(served) : served[k] \in S
        <5> HIDE DEF S
        <5>1. QED  BY <4>1, ElementOfSeq
      <4>3. QED  BY <4>2
    <3>2. \A k \in 1 .. Len(served) : served[k].life <= life
      BY DEF OnceInv, ServedWhole
    <3>3. TakenOnce'
      BY SMT, <1>0, <2>1, <3>1, <3>2 DEF TakenOnce
    <3>4. ServedWhole'
      BY SMT, <1>0, <2>1, <3>1 DEF OnceInv, ServedWhole
    <3>5. QED  BY <3>3, <3>4
  <2>3. ReadCurrent'  BY <2>1 DEF OnceInv, ReadCurrent
  <2>4. AnsweredServed'  BY <2>1 DEF OnceInv, AnsweredServed
  <2>5. QED  BY <2>2, <2>3, <2>4 DEF OnceInv
<1>13. CASE UNCHANGED vars
  <2>1. UNCHANGED <<n, as, state, done, done_clr, pc, seen, life, served>>
    BY <1>13 DEF vars, busVars, fpgaVars, armVars
  <2>2. QED  BY <2>1, QuietKeepsOnce DEF OnceInv, ReadCurrent
<1>14. QED
  BY <1>1, <1>2, <1>3, <1>4, <1>5, <1>6, <1>7, <1>8, <1>9, <1>10, <1>11, <1>12, <1>13
     DEF Next, Clock, Serve

\* No life of the daemon serves a request twice or one put together of two
\* cycles, and a cycle that ends with DTACK has been served, unless BERR has hit
\* a daemon in the middle of a request.
THEOREM RequestsServedOnce == Spec => []ServedOnce
<1> DEFINE Inv == SeenFields /\ ServedTypes /\ (~late => Tie /\ OnceInv)
<1>1. Init => Inv
  <2> SUFFICES ASSUME Init PROVE Inv
    OBVIOUS
  <2>1. SeenFields /\ (~late => Tie)
    BY InitEstablishes DEF IInv
  <2>2. /\ ~as /\ state = "IDLE" /\ pc = "poll" /\ served = <<>> /\ life = 1
        /\ ~done /\ Len(served) = 0
    BY DEF Init
  <2>3. ServedTypes  BY <2>2, EmptySeq DEF ServedTypes
  <2>4. OnceInv
    <3>1. ReadCurrent  BY <2>2 DEF ReadCurrent
    <3>2. ServedWhole /\ TakenOnce  BY SMT, <2>2 DEF ServedWhole, TakenOnce
    <3>3. AnsweredServed  BY <2>2 DEF AnsweredServed
    <3>4. QED  BY <3>1, <3>2, <3>3 DEF OnceInv
  <2>5. QED  BY <2>1, <2>3, <2>4
<1>2. Inv /\ [Next]_vars => Inv'
  BY SeenKept, ServedTyped, TieKept, OnceKept, LateStays
<1>3. Inv => ServedOnce
  <2> SUFFICES ASSUME SeenFields, ServedTypes, ~late, Tie, OnceInv PROVE ServedOnce
    BY DEF ServedOnce
  <2>1. DOMAIN served = 1 .. Len(served)
    BY LenProperties DEF ServedTypes
  <2>2. dtack => \E k \in DOMAIN served : served[k].req["data"] = n
    BY <2>1 DEF Tie, AnswerCurrent, OnceInv, AnsweredServed
  <2>3. QED  BY <2>1, <2>2 DEF OnceInv, ServedWhole, ServedOnce, Whole
<1>4. QED  BY <1>1, <1>2, <1>3, PTL DEF Spec

=============================================================================
