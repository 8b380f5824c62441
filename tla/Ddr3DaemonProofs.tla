-------------------------- MODULE Ddr3DaemonProofs --------------------------
(***************************************************************************)
(* The mailbox design for any number of cycles, frames and expired waits,  *)
(* and for queues and retries of any size: the lock, the board RAM slots,  *)
(* the answers, and the way of the RDP writes to the chip.                 *)
(***************************************************************************)
EXTENDS Ddr3Daemon, SequenceTheorems, TLAPS

\* The leaves are first-order; those with arithmetic, or with many cases, name SMT.
USE ZenonT(30)

-----------------------------------------------------------------------------
(* The lock and the transfers made under it.                               *)

\* A thread is inside a locked call exactly while it owns the lock; transfers
\* are made, and cycles served aside, only in between.
LockInv ==
    /\ DOMAIN pc = Threads /\ pc["rx"] \in {"recv", "locked", "mark"}
    /\ \A t \in Threads : owner = t <=> pc[t] \in {"locked", "mark"}
    /\ \A t \in Threads : pc[t] = "mark" => attempt = 0
    /\ owner = "none" => attempt = 0
    /\ attempt = 0 => safe.at = "none"
    /\ owner # "none" => call.to \in {"delay", "cleared", "drain", "int", "recv"}
    /\ owner = "rx" => call.to = "recv"
    /\ xfer \in Nat /\ attempt \in Nat

\* Until a wait runs out of polls, one of the RAM slots at most is in use, and
\* it is for the transfer in progress.
RamInv ==
    "late" \notin slips =>
      /\ ramReq # 0 => ramReq = xfer /\ attempt > 0 /\ ramJob = 0 /\ ramRsp = 0
      /\ ramJob # 0 => ramJob = xfer /\ attempt > 0 /\ ramRsp = 0
      /\ ramRsp # 0 => ramRsp = xfer /\ attempt > 0

\* How a step can touch the lock and the transfers: it leaves both alone, and a
\* thread outside of a locked call at most moves on ...
Moves ==
    /\ UNCHANGED <<lockVars, safe, ramVars>>
    /\ "late" \in slips' <=> "late" \in slips
    /\ \/ pc' = pc
       \/ /\ pc["main"] \notin {"locked", "mark"}
          /\ \E to : to \notin {"locked", "mark"} /\ pc' = [pc EXCEPT !["main"] = to]

\* ... or it enters a locked call.
Enters(t) ==
    /\ owner = "none" /\ owner' = t
    /\ pc' = [pc EXCEPT ![t] = "locked"]
    /\ call'.to \in {"delay", "cleared", "drain", "int", "recv"}
    /\ t = "rx" => call'.to = "recv"
    /\ \/ xfer' = xfer + 1 /\ attempt' = 1 /\ ramReq' = xfer + 1
       \/ UNCHANGED <<xfer, attempt, ramReq>>
    /\ UNCHANGED <<safe, ramRsp, ramJob, slips>>

\* Where a write sends the main thread.
LEMMA AfterWputPlaces ==
    ASSUME NEW v, NEW c, NEW from
    PROVE  AfterWput(v, c, from) \in {"delay", "cleared", "drain"}
  BY DEF AfterWput, AfterDirect, AfterDeferred

\* A write given to the chip enters a locked call.
LEMMA WputEnters ==
    ASSUME NEW from, Wput(from)
    PROVE  Enters("main")
<1>1. UNCHANGED <<safe, ramRsp, ramJob, slips>>
  BY DEF Wput
<1>2. CASE rap # 0
  <2>1. Enter("main", csr0, QuietCall(csr0, AfterWput(cur.word, csr0, from)), FALSE)
    BY <1>2 DEF Wput
  <2>2. QED
    BY <1>1, <2>1, AfterWputPlaces DEF Enter, Enters, Go, QuietCall
<1>3. CASE rap = 0
  <2> DEFINE v == cur.word
             init == am_initialized \/ IsInit(csr0, v)
             done == Demanded(Commanded(csr0, v, {}), {}, init)
             final(d) == LineCall(Rethink(d \ {"TDMD"}), AfterWput(v, Rethink(d \ {"TDMD"}), from))
             mid == IF ~IsInit(csr0, v) THEN csr0
                    ELSE IF IsStart(csr0, v) THEN done \ {"IDON"} ELSE Latch(csr0, v)
  <2>1. WputCsr0(v, from)  BY <1>3 DEF Wput
  <2>2. \/ \E d : Enter("main", done, final(d), TRUE)
        \/ Enter("main", mid, final(done), IsInit(csr0, v))
    BY <2>1 DEF WputCsr0
  <2>3. \A d : final(d).to \in {"delay", "cleared", "drain"}
    BY AfterWputPlaces DEF LineCall
  <2> HIDE DEF final, done, mid
  <2>4. QED
    BY <1>1, <2>2, <2>3 DEF Enter, Enters, Go
<1>4. QED  BY <1>2, <1>3

\* Each step is of one of these kinds, or one of the lock's own.
LEMMA StepKinds ==
    ASSUME LockInv, [Next]_vars
    PROVE  \/ Moves \/ MboxRam
           \/ \E t \in Threads : Enters(t) \/ Locked(t)
<1>1. CASE Host \/ MboxAnswer \/ UNCHANGED vars
  BY <1>1 DEF Host, HostCycle, MboxAnswer, vars, Moves, histVars
<1>2. CASE ServiceTake \/ ServiceLook \/ ServiceAnswer \/ ServiceClear \/ ServiceSettle
             \/ Drain \/ HoldOrRead \/ StoreInt \/ StoreLast
  <2>1. UNCHANGED <<lockVars, safe, ramVars>> /\ ("late" \in slips' <=> "late" \in slips)
    BY <1>2 DEF ServiceTake, ServiceLook, ServiceAnswer, ServiceClear, ClearReq,
                ServiceSettle, Drain, HoldOrRead, StoreInt, StoreLast, MainStep
  <2>2. pc["main"] \notin {"locked", "mark"}
    BY <1>2 DEF ServiceTake, ServiceLook, ServiceAnswer, ServiceClear, ClearReq,
                ServiceSettle, Drain, HoldOrRead, StoreInt, StoreLast, MainStep
  <2>3. \E to : to \notin {"locked", "mark"} /\ pc' = [pc EXCEPT !["main"] = to]
    BY <1>2 DEF ServiceTake, ServiceLook, ServiceAnswer, ServiceClear, ServiceSettle, Drain,
                HoldOrRead, StoreInt, StoreLast, MainStep, Go, AfterDrain
  <2>4. QED  BY <2>1, <2>2, <2>3 DEF Moves
<1>3. CASE ServiceWput
  <2>1. CASE Wput("wput")
    BY <2>1, WputEnters DEF Threads
  <2>2. CASE ~Wput("wput")
    BY <1>3, <2>2 DEF ServiceWput, Moves, Go, histVars
  <2>3. QED  BY <2>1, <2>2
<1>4. CASE DrainWput
  BY <1>4, WputEnters DEF DrainWput, Threads
<1>5. CASE Retry
  BY SMT, <1>5 DEF Retry, Enter, Enters, Moves, Go, QuietCall, LineCall, histVars, ramVars, Threads
<1>6. CASE Refresh
  BY <1>6 DEF Refresh, Moves, Go, histVars
<1>7. CASE RxGotfunc
  BY SMT, <1>7 DEF RxGotfunc, Enter, Enters, Go, QuietCall, LineCall, histVars, Threads
<1>8. QED
  BY <1>1, <1>2, <1>3, <1>4, <1>5, <1>6, <1>7 DEF Next, Main, Threads

\* LockInv is inductive.
LEMMA LockKept == LockInv /\ [Next]_vars => LockInv'
<1> SUFFICES ASSUME LockInv, [Next]_vars PROVE LockInv'
  OBVIOUS
<1>1. CASE Moves
  BY <1>1 DEF Moves, LockInv, lockVars, Threads
<1>2. CASE MboxRam
  BY <1>2 DEF MboxRam, LockInv, lockVars
<1>3. ASSUME NEW t \in Threads, Enters(t) PROVE LockInv'
  BY SMT, <1>3 DEF Enters, LockInv, Threads
<1>4. ASSUME NEW t \in Threads, Locked(t) PROVE LockInv'
  <2>1. CASE Finish(t)
    BY <2>1 DEF Finish, Go, LockInv, lockVars, Threads
  <2>2. CASE Release(t)
    BY <2>2 DEF Release, Go, LockInv, Threads
  <2>3. CASE XferDone(t)
    BY <2>3 DEF XferDone, Waiting, LockInv
  <2>4. CASE XferExpires(t)
    BY SMT, <2>4 DEF XferExpires, Waiting, LockInv
  <2>5. CASE SafeTake(t) \/ SafeAnswer(t) \/ SafeClear(t) \/ SafeFinish(t)
    <3>1. UNCHANGED <<lockVars, pc>> /\ attempt # 0
      BY SMT, <2>5 DEF SafeTake, SafeAnswer, SafeClear, SafeFinish, SafeStep, Waiting, LockInv
    <3>2. QED  BY <3>1 DEF LockInv, lockVars
  <2>6. QED  BY <1>4, <2>1, <2>2, <2>3, <2>4, <2>5 DEF Locked
<1>5. QED  BY <1>1, <1>2, <1>3, <1>4, StepKinds

\* RamInv is inductive: an answer is for the transfer that waits for it.
LEMMA RamKept == LockInv /\ RamInv /\ [Next]_vars => RamInv'
<1> SUFFICES ASSUME LockInv, RamInv, [Next]_vars, "late" \notin slips' PROVE RamInv'
  BY DEF RamInv
<1>1. CASE Moves
  BY <1>1 DEF Moves, RamInv, lockVars, ramVars
<1>2. CASE MboxRam
  BY <1>2 DEF MboxRam, RamInv, lockVars, histVars
<1>3. ASSUME NEW t \in Threads, Enters(t) PROVE RamInv'
  BY SMT, <1>3 DEF Enters, RamInv, LockInv
<1>4. ASSUME NEW t \in Threads, Locked(t) PROVE RamInv'
  <2>1. CASE Finish(t)
    BY <2>1 DEF Finish, RamInv, lockVars, ramVars, histVars
  <2>2. CASE Release(t)
    BY <2>2 DEF Release, RamInv, ramVars
  <2>3. CASE XferDone(t)
    BY <2>3 DEF XferDone, Waiting, RamInv, histVars
  <2>4. CASE XferExpires(t)
    BY <2>4 DEF XferExpires
  <2>5. CASE SafeTake(t) \/ SafeAnswer(t) \/ SafeClear(t) \/ SafeFinish(t)
    <3>1. UNCHANGED <<lockVars, ramVars>> /\ slips \subseteq slips'
      BY <2>5 DEF SafeTake, SafeAnswer, SafeClear, ClearReq, SafeFinish, SafeStep
    <3>2. QED  BY <3>1 DEF RamInv, lockVars, ramVars
  <2>6. QED  BY <1>4, <2>1, <2>2, <2>3, <2>4, <2>5 DEF Locked
<1>5. QED  BY <1>1, <1>2, <1>3, <1>4, StepKinds

\* The lock is free and the slots are empty at first.
LEMMA LockInit == Init => LockInv /\ RamInv
  BY SMT DEF Init, LockInv, RamInv, Threads

\* A board RAM transfer gets the answer to its own request, whichever thread made
\* the ones before, until a wait has run out of polls; for any number of frames,
\* cycles and posts of a request.
THEOREM RamAnswersAreOwn == Spec => []OwnRamAnswer
<1>1. RamInv => OwnRamAnswer
  BY DEF RamInv, OwnRamAnswer
<1>2. QED  BY <1>1, LockInit, LockKept, RamKept, PTL DEF Spec

-----------------------------------------------------------------------------
(* The answers.                                                            *)

\* The main thread, and the thread that waits for board RAM, hold a request
\* they have not cleared.
MainServes == pc["main"] \in {"look", "answer", "clear"}
SafeServes == safe.at \in {"answer", "clear"}

RequestInv ==
    /\ cycles \in Nat
    /\ req # None => busy /\ req.n = cycles /\ cycles > 0

\* They have not answered it yet.
MainOwes == pc["main"] \in {"look", "answer"}
SafeOwes == safe.at = "answer"

\* The 68k waits for cycle c; its request may have been cleared already, by the
\* thread that answered the one before.
Owed(c) == busy /\ rsp = 0 /\ c # None /\ c.n = cycles /\ req \in {c, None}

\* Unless both took the same request, one of them at most owes the answer to the
\* cycle the 68k is in, an answered request is only left in its slot until its
\* thread clears it, and once a request is lost nothing is answered any more.
AnswerInv ==
    "raced" \notin slips =>
      /\ rsp # 0 => busy /\ rsp = cycles
      /\ MainOwes => Owed(cur)
      /\ SafeOwes => Owed(safe.cycle)
      /\ ~(MainOwes /\ SafeOwes)
      /\ rsp # 0 /\ req # None =>
           \/ pc["main"] = "clear" /\ req = cur
           \/ safe.at = "clear" /\ req = safe.cycle
      /\ "wiped" \in slips => busy /\ rsp = 0 /\ req = None /\ ~MainOwes /\ ~SafeOwes

CycleInv == RequestInv /\ AnswerInv

Holding == {"look", "answer", "clear", "wput", "drained"}
Races == {"raced", "overtook", "rap", "full"}
heldVars == <<cycles, busy, hrap, wrote, req, rsp, rap, cur, safe, queue, applied>>

\* Steps of the main thread while it holds no cycle, and of the lock.
Elsewhere ==
    /\ UNCHANGED heldVars
    /\ slips' \ {"late", "crossed"} = slips \ {"late", "crossed"}
    /\ \/ pc'["main"] = pc["main"]
       \/ pc["main"] \notin Holding /\ pc'["main"] \notin Holding

\* What is not a step of the 68k, of the mailbox, of a service function or of the
\* queue is one of those.
LEMMA ServiceSteps ==
    ASSUME LockInv, [Next]_vars
    PROVE  \/ Host \/ MboxAnswer \/ ServiceTake \/ ServiceLook \/ ServiceAnswer \/ ServiceClear
           \/ ServiceWput \/ Drain \/ DrainWput
           \/ \E t \in Threads : SafeTake(t) \/ SafeAnswer(t) \/ SafeClear(t) \/ SafeFinish(t)
           \/ Elsewhere
<1>0. DOMAIN pc = Threads /\ Threads = {"main", "rx"}  BY DEF LockInv, Threads
<1>1. CASE MboxRam \/ UNCHANGED vars
  BY <1>1 DEF MboxRam, vars, worldVars, slotVars, chipVars, mainVars, histVars, Elsewhere, heldVars
<1>2. CASE ServiceSettle \/ HoldOrRead \/ StoreInt \/ StoreLast
  <2>1. UNCHANGED <<heldVars, slips>>
    BY <1>2 DEF ServiceSettle, HoldOrRead, StoreInt, StoreLast, MainStep, worldVars, slotVars,
                chipVars, heldVars
  <2>2. pc["main"] \notin Holding
    BY <1>2 DEF ServiceSettle, HoldOrRead, StoreInt, StoreLast, MainStep, Holding
  <2>3. pc'["main"] \notin Holding
    BY <1>0, <1>2 DEF ServiceSettle, HoldOrRead, StoreInt, StoreLast, MainStep, Go, Holding
  <2>4. QED  BY <2>1, <2>2, <2>3 DEF Elsewhere
<1>3. CASE Retry \/ Refresh
  <2>1. UNCHANGED <<heldVars, slips>> /\ pc["main"] \notin Holding
    BY <1>3 DEF Retry, Refresh, worldVars, slotVars, chipVars, histVars, heldVars, Holding
  <2>2. \E to \in {"int", "locked", "service"} : pc' = [pc EXCEPT !["main"] = to]
    BY <1>3 DEF Retry, Refresh, Go, Enter
  <2>3. pc'["main"] \notin Holding  BY <1>0, <2>2 DEF Holding
  <2>4. QED  BY <2>1, <2>3 DEF Elsewhere
<1>4. CASE RxGotfunc
  <2>1. UNCHANGED <<heldVars, slips>> /\ pc' = [pc EXCEPT !["rx"] = "locked"]
    BY <1>4 DEF RxGotfunc, Enter, Go, slotVars, mainVars, histVars, heldVars
  <2>2. QED  BY <1>0, <2>1 DEF Elsewhere
<1>5. ASSUME NEW t \in Threads, Finish(t) \/ Release(t) \/ XferDone(t) \/ XferExpires(t)
      PROVE  Elsewhere
  <2>1. UNCHANGED heldVars
    BY <1>5 DEF Finish, Release, XferDone, XferExpires, worldVars, slotVars, chipVars, mainVars,
                histVars, heldVars
  <2>2. slips' \ {"late", "crossed"} = slips \ {"late", "crossed"}
    BY <1>5 DEF Finish, Release, XferDone, XferExpires, histVars
  <2>3. CASE XferDone(t) \/ XferExpires(t)
    BY <2>1, <2>2, <2>3 DEF XferDone, XferExpires, Elsewhere
  <2>4. CASE Finish(t) \/ Release(t)
    <3>1. pc[t] \in {"locked", "mark"} /\ owner = t
      BY <2>4 DEF Finish, Release, LockInv
    <3>2. \E to \in {"mark", "delay", "cleared", "drain", "int", "recv"} :
            pc' = [pc EXCEPT ![t] = to]
      BY <2>4, <3>1, <1>0 DEF Finish, Release, Go, LockInv
    <3>3. QED  BY <1>0, <2>1, <2>2, <3>1, <3>2 DEF Elsewhere, Holding
  <2>5. QED  BY <1>5, <2>3, <2>4
<1>6. QED
  BY <1>0, <1>1, <1>2, <1>3, <1>4, <1>5 DEF Next, Main, Locked

\* A write given to the chip, from the REQ slot or from the queue.
LEMMA WputGives ==
    ASSUME LockInv, NEW from, Wput(from)
    PROVE  /\ UNCHANGED <<cycles, busy, hrap, wrote, req, rsp, rap, safe, queue, slips>>
           /\ pc["main"] = from /\ pc'["main"] = "locked" /\ cur' = None
           /\ safe.at = "none"
           /\ applied' = Append(applied, [id |-> cur.id, rap |-> rap, word |-> cur.word])
<1>1. Enters("main")  BY WputEnters
<1>2. pc'["main"] = "locked" /\ safe.at = "none"
  BY <1>1 DEF Enters, LockInv, Threads
<1>3. QED  BY <1>2 DEF Wput, worldVars, slotVars

\* CycleInv is inductive.
LEMMA CycleKept == LockInv /\ CycleInv /\ [Next]_vars => CycleInv'
<1> SUFFICES ASSUME LockInv, CycleInv, [Next]_vars PROVE CycleInv'
  OBVIOUS
<1>0. DOMAIN pc = Threads /\ Threads = {"main", "rx"} /\ None.n = 0
  BY DEF LockInv, Threads, None
<1>1. CASE Host
  <2>1. /\ ~busy
        /\ busy' = TRUE /\ cycles' = cycles + 1 /\ req'.n = cycles + 1
        /\ UNCHANGED <<rsp, pc, cur, safe, slips>>
    <3>1. PICK kind, r, v : HostCycle(kind, r, v)  BY <1>1 DEF Host
    <3>2. QED  BY <3>1 DEF HostCycle, mainVars, histVars
  <2>2. req = None  BY <2>1 DEF CycleInv, RequestInv
  <2>3. RequestInv'
    BY SMT, <2>1 DEF CycleInv, RequestInv
  <2>4. AnswerInv'
    BY <2>1, <2>2 DEF CycleInv, AnswerInv, MainOwes, SafeOwes, Owed
  <2>5. QED  BY <2>3, <2>4 DEF CycleInv
<1>2. CASE MboxAnswer
  BY <1>2 DEF MboxAnswer, mainVars, histVars, CycleInv, RequestInv, AnswerInv, MainOwes, SafeOwes, Owed
<1>3. CASE ServiceTake
  <2>1. /\ UNCHANGED <<cycles, busy, req, rsp, safe>> /\ cur' = req /\ pc["main"] = "service"
        /\ pc'["main"] \in {"look", "answer", "drain"}
        /\ pc'["main"] = "drain" <=> req = None
        /\ "raced" \notin slips' => "raced" \notin slips /\ (req # None => safe.cycle # req)
        /\ "wiped" \in slips' <=> "wiped" \in slips
    BY <1>0, <1>3 DEF ServiceTake, MainStep, Go, worldVars, slotVars
  <2>2. QED
    BY <2>1 DEF CycleInv, RequestInv, AnswerInv, MainOwes, SafeOwes, Owed
<1>4. CASE ServiceLook
  <2>1. /\ UNCHANGED <<cycles, busy, req, rsp, safe, cur, slips>> /\ pc["main"] = "look" /\ pc'["main"] = "answer"
    BY <1>0, <1>4 DEF ServiceLook, MainStep, Go, worldVars, slotVars
  <2>2. QED
    BY <2>1 DEF CycleInv, RequestInv, AnswerInv, MainOwes, SafeOwes, Owed
<1>5. CASE ServiceAnswer
  <2>1. /\ UNCHANGED <<cycles, busy, req, safe, cur, slips>>
        /\ pc["main"] = "answer" /\ pc'["main"] = "clear" /\ rsp' = cur.n
    BY <1>0, <1>5 DEF ServiceAnswer, MainStep, Go, worldVars
  <2>2. QED
    BY <2>1 DEF CycleInv, RequestInv, AnswerInv, MainOwes, SafeOwes, Owed
<1>6. CASE ServiceClear
  <2>1. /\ UNCHANGED <<cycles, busy, rsp, safe, cur>>
        /\ pc["main"] = "clear" /\ pc'["main"] \in {"drain", "wput"} /\ ClearReq
    BY <1>0, <1>6 DEF ServiceClear, MainStep, Go, worldVars
  <2>2. QED
    BY <2>1 DEF ClearReq, CycleInv, RequestInv, AnswerInv, MainOwes, SafeOwes, Owed
<1>7. ASSUME NEW t \in Threads, SafeTake(t) PROVE CycleInv'
  <2>1. /\ UNCHANGED <<cycles, busy, req, rsp, pc, cur>>
        /\ safe.at = "none" /\ req # None /\ safe' = [at |-> "answer", cycle |-> req]
        /\ "raced" \notin slips' => "raced" \notin slips /\ cur # req
        /\ "wiped" \in slips' <=> "wiped" \in slips
    BY <1>7 DEF SafeTake, SafeStep, Waiting, worldVars, slotVars
  <2>2. QED
    BY <2>1 DEF CycleInv, RequestInv, AnswerInv, MainOwes, SafeOwes, Owed
<1>8. ASSUME NEW t \in Threads, SafeAnswer(t) PROVE CycleInv'
  <2>1. /\ UNCHANGED <<cycles, busy, req, pc, cur, slips>> /\ rsp' = safe.cycle.n
        /\ safe.at = "answer" /\ safe' = [at |-> "clear", cycle |-> safe.cycle]
    BY <1>8 DEF SafeAnswer, SafeStep, worldVars
  <2>2. QED
    BY <2>1 DEF CycleInv, RequestInv, AnswerInv, MainOwes, SafeOwes, Owed
<1>c. ASSUME NEW t \in Threads, SafeClear(t) PROVE CycleInv'
  <2>1. /\ UNCHANGED <<cycles, busy, rsp, pc, cur>>
        /\ safe.at = "clear" /\ safe'.at = "finish" /\ ClearReq
    BY <1>c DEF SafeClear, SafeStep, worldVars
  <2>2. QED
    BY <2>1 DEF ClearReq, CycleInv, RequestInv, AnswerInv, MainOwes, SafeOwes, Owed
<1>9. ASSUME NEW t \in Threads, SafeFinish(t) PROVE CycleInv'
  <2>1. /\ UNCHANGED <<cycles, busy, rsp, pc, cur, req>>
        /\ slips \subseteq slips' /\ ("wiped" \in slips' => "wiped" \in slips)
        /\ safe.at = "finish" /\ safe'.at = "none"
    BY SMT, <1>9 DEF SafeFinish, SafeStep, worldVars, slotVars
  <2>2. QED
    BY <2>1 DEF CycleInv, RequestInv, AnswerInv, MainOwes, SafeOwes, Owed
<1>10. CASE ServiceWput \/ Drain \/ DrainWput
  <2>1. /\ UNCHANGED <<cycles, busy, req, rsp, safe, slips>>
        /\ pc["main"] \in {"wput", "drain", "drained"} /\ ~MainOwes'
    <3>1. CASE Drain
      BY <1>0, <3>1 DEF Drain, MainStep, Go, AfterDrain, worldVars, slotVars, MainOwes
    <3>2. CASE Wput("wput") \/ Wput("drained")
      BY SMT, <3>2, WputGives DEF MainOwes
    <3>3. CASE ServiceWput /\ ~Wput("wput")
      BY <1>0, <3>3 DEF ServiceWput, Go, worldVars, slotVars, histVars, MainOwes
    <3>4. QED  BY <1>10, <3>1, <3>2, <3>3 DEF DrainWput
  <2>2. QED
    BY <2>1 DEF CycleInv, RequestInv, AnswerInv, MainOwes, SafeOwes, Owed
<1>11. CASE Elsewhere
  <2>1. /\ UNCHANGED <<cycles, busy, req, rsp, safe, cur>>
        /\ "raced" \in slips' <=> "raced" \in slips
        /\ "wiped" \in slips' <=> "wiped" \in slips
        /\ \/ pc'["main"] = pc["main"]
           \/ pc["main"] \notin Holding /\ pc'["main"] \notin Holding
    BY <1>11 DEF Elsewhere, heldVars
  <2>2. QED
    BY <2>1 DEF CycleInv, RequestInv, AnswerInv, MainOwes, SafeOwes, Owed, Holding
<1>12. QED
  BY <1>1, <1>2, <1>3, <1>4, <1>5, <1>6, <1>7, <1>8, <1>c, <1>9, <1>10, <1>11, ServiceSteps

\* No request is made at first.
LEMMA CycleInit == Init => CycleInv
  BY SMT DEF Init, CycleInv, RequestInv, AnswerInv, MainOwes, SafeOwes

\* An answer in the RSP slot is the answer to the cycle the 68k is in, as long as
\* the two threads have not both taken one request.
THEOREM AnswersFitTheCycle == Spec => []AnswersOwnCycle
<1>1. CycleInv => AnswersOwnCycle
  BY DEF CycleInv, AnswerInv, AnswersOwnCycle
<1>2. QED  BY <1>1, LockInit, LockKept, CycleInit, CycleKept, PTL DEF Spec

-----------------------------------------------------------------------------
(* Type correctness: the cycles, where they are held, and what has become  *)
(* of the RDP writes.                                                      *)

Write == [rap : Regs, word : Words \cup {{}}]
Given == [id : Nat, rap : Regs, word : Words \cup {{}}]

HeldTypes ==
    /\ cycles \in 0 .. MaxCycles /\ busy \in BOOLEAN
    /\ hrap \in Regs /\ rap \in Regs
    /\ req \in Cycle \cup {None} /\ req.n <= cycles
    /\ cur \in Cycle \cup {None} /\ cur.n <= cycles
    /\ safe.cycle \in Cycle \cup {None} /\ safe.cycle.n <= cycles
    /\ safe.at \in {"none", "answer", "clear", "finish"}
    /\ rsp \in 0 .. cycles
    /\ queue \in Seq(Cycle) /\ Len(queue) < QueueSize
    /\ \A i \in 1 .. Len(queue) : queue[i].n <= cycles
    /\ wrote \in Seq(Write) /\ applied \in Seq(Given)

\* The fields of a cycle; no cycle has the fields of None.
LEMMA CycleFields ==
    ASSUME NEW c \in Cycle \cup {None}
    PROVE  /\ c.n \in Nat /\ c.id \in Nat /\ c.rap \in Regs /\ c.word \in Words \cup {{}}
           /\ c.kind \in {"rap", "put", "get", "none"}
           /\ c = None <=> c.kind = "none"
  BY SMT, KindsAssumption DEF Cycle, None

\* None is a value of its own.
LEMMA NoneFields == None \in Cycle \cup {None} /\ None.n = 0 /\ None.kind = "none"
  BY DEF None

\* What taking the head off the queue leaves.
LEMMA DrainProperties ==
    ASSUME NEW S, NEW q \in Seq(S), q # <<>>
    PROVE  /\ Tail(q) \in Seq(S) /\ Head(q) \in S /\ Head(q) = q[1]
           /\ Len(q) \in Nat /\ Len(q) >= 1 /\ Len(Tail(q)) = Len(q) - 1
           /\ \A i \in 1 .. Len(Tail(q)) : Tail(q)[i] = q[i + 1]
<1>1. Head(q) = q[1]  BY SMT
<1>2. Len(q) \in Nat /\ Len(q) # 0  BY LenProperties, EmptySeq
<1>3. QED  BY SMT, <1>1, <1>2, HeadTailProperties

\* The 68k starts a cycle.
LEMMA HostHeld == HeldTypes /\ Host => HeldTypes'
<1> SUFFICES ASSUME HeldTypes, Host PROVE HeldTypes'
  OBVIOUS
<1>1. PICK kind \in {"rap", "put", "get"}, r \in Regs, v \in Words \cup {{}} : HostCycle(kind, r, v)
  BY DEF Host, HeldTypes
<1>2. /\ cycles' = cycles + 1 /\ cycles' \in 0 .. MaxCycles /\ busy' = TRUE /\ hrap' \in Regs
      /\ cycles \in Nat
      /\ UNCHANGED <<rap, cur, safe, rsp, queue, applied>>
  <2>1. /\ cycles' = cycles + 1 /\ cycles < MaxCycles /\ busy' = TRUE /\ hrap' \in Regs
        /\ cycles \in 0 .. MaxCycles
        /\ UNCHANGED <<rap, cur, safe, rsp, queue, applied>>
    BY <1>1 DEF HostCycle, HeldTypes, chipVars, mainVars, histVars
  <2>2. MaxCycles \in Nat  BY SizesAssumption
  <2>3. cycles \in Nat /\ cycles + 1 \in 0 .. MaxCycles  BY SMT, <2>1, <2>2
  <2>4. QED  BY <2>1, <2>3
<1>3. wrote' \in Seq(Write)
  <2>1. [rap |-> hrap, word |-> v] \in Write  BY DEF HeldTypes, Write
  <2>2. QED  BY <1>1, <2>1, AppendProperties DEF HostCycle, HeldTypes
<1>4. req' \in Cycle /\ req'.n = cycles'
  <2>1. Len(wrote') \in Nat  BY <1>3, LenProperties
  <2>2. QED  BY SMT, <1>1, <1>2, <2>1 DEF HostCycle, Cycle
<1>5. \A i \in 1 .. Len(queue) : queue[i].n \in Nat
  BY CycleFields, ElementOfSeq DEF HeldTypes
<1>6. /\ cur.n <= cycles' /\ safe.cycle.n <= cycles' /\ rsp \in 0 .. cycles'
      /\ \A i \in 1 .. Len(queue) : queue[i].n <= cycles'
  BY SMT, <1>2, <1>5, CycleFields DEF HeldTypes
<1>7. QED  BY SMT, <1>2, <1>3, <1>4, <1>6 DEF HeldTypes

\* Every step keeps the types; the queue never fills its last slot.
LEMMA HeldKept == LockInv /\ HeldTypes /\ [Next]_vars => HeldTypes'
<1> SUFFICES ASSUME LockInv, HeldTypes, [Next]_vars PROVE HeldTypes'
  OBVIOUS
<1> USE NoneFields
<1>q. /\ queue \in Seq(Cycle) /\ QueueSize \in Nat /\ Len(queue) < QueueSize
       /\ \A i \in 1 .. Len(queue) : queue[i].n <= cycles
  BY SizesAssumption DEF HeldTypes
<1>0. cycles \in Nat /\ 0 <= cycles /\ cur.n \in Nat /\ safe.cycle.n \in Nat /\ req.n \in Nat
  <2>1. cur.n \in Nat /\ safe.cycle.n \in Nat /\ req.n \in Nat  BY CycleFields DEF HeldTypes
  <2>2. MaxCycles \in Nat /\ cycles \in 0 .. MaxCycles  BY SizesAssumption DEF HeldTypes
  <2>3. QED  BY SMT, <2>1, <2>2
<1>1. CASE MboxAnswer
  <2>1. /\ UNCHANGED <<cycles, hrap, wrote, rap, cur, safe, queue, applied>>
        /\ req' = None /\ rsp' = 0
    BY <1>1 DEF MboxAnswer, mainVars, chipVars, histVars
  <2>2. busy' \in BOOLEAN  BY <1>1 DEF MboxAnswer
  <2>3. rsp' \in 0 .. cycles  BY SMT, <1>0, <2>1
  <2>4. QED  BY <1>0, <2>1, <2>2, <2>3 DEF HeldTypes
<1>2. CASE ServiceTake \/ ServiceLook \/ ServiceClear
  <2>1. /\ UNCHANGED <<cycles, busy, hrap, wrote, rap, safe, rsp, queue, applied>>
        /\ req' \in {req, None} /\ cur' \in {cur, req}
    BY <1>2 DEF ServiceTake, ServiceLook, ServiceClear, ClearReq, MainStep, worldVars, slotVars,
                chipVars
  <2>2. QED  BY <1>0, <2>1 DEF HeldTypes
<1>3. CASE ServiceAnswer
  <2>1. /\ UNCHANGED <<cycles, busy, hrap, wrote, rap, req, cur, safe, queue, applied>>
        /\ rsp' = cur.n
    BY <1>3 DEF ServiceAnswer, MainStep, worldVars, chipVars
  <2>2. rsp' \in 0 .. cycles  BY SMT, <1>0, <2>1 DEF HeldTypes
  <2>3. QED  BY <2>1, <2>2 DEF HeldTypes
<1>4. ASSUME NEW from, Wput(from) PROVE HeldTypes'
  <2>1. [id |-> cur.id, rap |-> rap, word |-> cur.word] \in Given
    BY CycleFields DEF HeldTypes, Given
  <2>2. applied' \in Seq(Given)
    <3>1. applied \in Seq(Given)  BY DEF HeldTypes
    <3>2. applied' = Append(applied, [id |-> cur.id, rap |-> rap, word |-> cur.word])
      BY <1>4, WputGives
    <3>3. QED  BY <2>1, <3>1, <3>2, AppendProperties
  <2>3. QED  BY <1>0, <1>4, <2>2, WputGives DEF HeldTypes
<1>5. CASE ServiceWput /\ ~Wput("wput")
  <2>1. /\ UNCHANGED <<cycles, busy, hrap, wrote, req, rsp, cur, safe, queue, applied>>
        /\ rap' = cur.rap
    BY <1>5 DEF ServiceWput, worldVars, slotVars, mainVars, histVars
  <2>2. QED  BY <2>1, CycleFields DEF HeldTypes
<1>6. CASE Drain
  <2>1. /\ UNCHANGED <<cycles, busy, hrap, wrote, req, rsp, rap, safe, applied>>
        /\ queue = <<>> => cur' = None /\ queue' = queue
        /\ queue # <<>> => cur' = Head(queue) /\ queue' = Tail(queue)
    BY <1>6 DEF Drain, MainStep, worldVars, slotVars, chipVars
  <2>2. CASE queue = <<>>  BY <1>0, <2>1, <2>2 DEF HeldTypes
  <2>3. CASE queue # <<>>
    <3>1. /\ queue' \in Seq(Cycle) /\ cur' \in Cycle /\ cur' = queue[1]
          /\ Len(queue) \in Nat /\ Len(queue) >= 1 /\ Len(queue') = Len(queue) - 1
          /\ \A i \in 1 .. Len(queue') : queue'[i] = queue[i + 1]
      BY SMT, <1>q, <2>1, <2>3, DrainProperties
    <3>2. /\ Len(queue') < QueueSize /\ cur'.n <= cycles
          /\ \A i \in 1 .. Len(queue') : queue'[i].n <= cycles
      BY SMT, <1>q, <3>1
    <3>3. QED  BY <2>1, <3>1, <3>2 DEF HeldTypes
  <2>4. QED  BY <2>2, <2>3
<1>7. ASSUME NEW t \in Threads, SafeTake(t) \/ SafeAnswer(t) \/ SafeClear(t) PROVE HeldTypes'
  <2>1. /\ UNCHANGED <<cycles, busy, hrap, wrote, rap, cur, queue, applied>>
        /\ req' \in {req, None} /\ rsp' \in {rsp, safe.cycle.n}
        /\ safe'.cycle \in {safe.cycle, req} /\ safe'.at \in {"answer", "clear", "finish"}
    BY SMT, <1>7 DEF SafeTake, SafeAnswer, SafeClear, ClearReq, SafeStep, worldVars, slotVars
  <2>2. rsp' \in 0 .. cycles  BY SMT, <1>0, <2>1 DEF HeldTypes
  <2>3. QED  BY <1>0, <2>1, <2>2 DEF HeldTypes
<1>8. ASSUME NEW t \in Threads, SafeFinish(t) PROVE HeldTypes'
  <2>1. /\ UNCHANGED <<cycles, busy, hrap, wrote, req, rsp, cur, applied>>
        /\ rap' \in {rap, safe.cycle.rap}
        /\ safe'.cycle = None /\ safe'.at = "none"
        /\ \/ queue' = queue
           \/ /\ safe.cycle.kind = "put" /\ Len(queue) + 1 # QueueSize
              /\ queue' = Append(queue, safe.cycle)
    BY <1>8 DEF SafeFinish, SafeStep, worldVars, slotVars
  <2>2. rap' \in Regs  BY <2>1, CycleFields DEF HeldTypes
  <2>3. queue' \in Seq(Cycle) /\ Len(queue') < QueueSize /\ \A i \in 1 .. Len(queue') : queue'[i].n <= cycles
    <3>1. CASE queue' = queue  BY <3>1 DEF HeldTypes
    <3>2. CASE queue' # queue
      <4>1. safe.cycle \in Cycle  BY <2>1, <3>2, CycleFields DEF HeldTypes
      <4>2. /\ queue' \in Seq(Cycle) /\ Len(queue) \in Nat /\ Len(queue') = Len(queue) + 1
            /\ \A i \in 1 .. Len(queue) : queue'[i] = queue[i]
            /\ queue'[Len(queue) + 1] = safe.cycle
        <5>1. queue \in Seq(Cycle) /\ queue' = Append(queue, safe.cycle)  BY <1>q, <2>1, <3>2
        <5>2. Len(queue) \in Nat  BY <5>1, LenProperties
        <5>3. QED  BY SMT, <4>1, <5>1, <5>2
      <4>3. safe.cycle.n <= cycles  BY DEF HeldTypes
      <4>4. ASSUME NEW i \in 1 .. Len(queue') PROVE queue'[i].n <= cycles
        BY SMT, <1>q, <4>2, <4>3
      <4>5. QED  BY SMT, <1>q, <2>1, <3>2, <4>2, <4>4
    <3>3. QED  BY <3>1, <3>2
  <2>4. QED  BY <1>0, <2>1, <2>2, <2>3 DEF HeldTypes
<1>9. CASE Elsewhere
  BY <1>9 DEF Elsewhere, heldVars, HeldTypes
<1>10. QED
  BY <1>1, <1>2, <1>3, <1>4, <1>5, <1>6, <1>7, <1>8, <1>9, HostHeld, ServiceSteps DEF DrainWput

\* Nothing is held at first.
LEMMA HeldInit == Init => HeldTypes
<1>1. <<>> \in Seq(Cycle) /\ <<>> \in Seq(Write) /\ <<>> \in Seq(Given) /\ Len(<<>>) = 0
  BY EmptySeq
<1>2. QED
  <2> SUFFICES ASSUME Init PROVE HeldTypes
    OBVIOUS
  <2>1. busy \in BOOLEAN  BY DEF Init
  <2>2. 0 < QueueSize /\ 0 \in 0 .. MaxCycles /\ 0 \in 0 .. 0  BY SMT, SizesAssumption
  <2>3. /\ cycles = 0 /\ hrap = 0 /\ rap = 0 /\ rsp = 0 /\ req = None /\ cur = None
        /\ safe.cycle = None /\ safe.at = "none" /\ queue = <<>> /\ wrote = <<>> /\ applied = <<>>
    BY DEF Init
  <2>4. QED  BY SMT, <1>1, <2>1, <2>2, <2>3, NoneFields, KindsAssumption DEF HeldTypes

-----------------------------------------------------------------------------
(* The RDP writes.  In order: those applied, the one the main thread holds, *)
(* the queue, the one served aside, the one in the REQ slot.               *)

Smooth == slips \cap Races = {}

MainHolds(kind) == pc["main"] \in Holding /\ cur.kind = kind
SafeHolds(kind) == safe.at # "none" /\ safe.cycle.kind = kind
ReqHolds(kind) == req \notin {None, cur, safe.cycle} /\ req.kind = kind

One(holds) == IF holds THEN 1 ELSE 0

\* c is an RDP write of the 68k.
Sent(c) ==
    /\ c.id \in 1 .. Len(wrote)
    /\ c.rap = wrote[c.id].rap /\ c.word = wrote[c.id].word

\* Each write in flight has the number that follows those before it; unless a
\* request was lost, none is missing.
Numbered ==
    /\ MainHolds("put") => cur.id = Len(applied) + 1 /\ Sent(cur)
    /\ pc["main"] = "drained" => cur.kind = "put"
    /\ \A i \in 1 .. Len(queue) :
         /\ queue[i].kind = "put" /\ Sent(queue[i])
         /\ queue[i].id = Len(applied) + One(MainHolds("put")) + i
    /\ SafeHolds("put") =>
         /\ safe.cycle.id = Len(applied) + One(MainHolds("put")) + Len(queue) + 1
         /\ Sent(safe.cycle)
    /\ ReqHolds("put") => req.id = Len(wrote) /\ Sent(req)
    /\ "wiped" \notin slips =>
         Len(wrote) = Len(applied) + One(MainHolds("put")) + Len(queue)
                        + One(SafeHolds("put")) + One(ReqHolds("put"))

\* The threads hold two cycles, either of which may be the older one; the queue
\* is older than what is served aside, and all that is held than a new request.
Aged ==
    /\ pc["main"] \in Holding /\ safe.at # "none" => cur.n # safe.cycle.n
    /\ safe.at # "none" => \A i \in 1 .. Len(queue) : queue[i].n < safe.cycle.n
    /\ req # None =>
         /\ (MainServes /\ cur = req) \/ cur.n < req.n
         /\ (SafeServes /\ safe.cycle = req) \/ safe.cycle.n < req.n
         /\ \A i \in 1 .. Len(queue) : queue[i].n < req.n

\* RAP as it is once the main thread has applied what it holds.
BaseRap == IF MainHolds("rap") THEN cur.rap ELSE rap

\* Each write in flight will find the RAP it was made with.
Selected ==
    /\ req # None => req.rap = hrap
    /\ "wiped" \notin slips /\ ~ReqHolds("rap") =>
         hrap = IF SafeHolds("rap") /\ (MainHolds("rap") => cur.n < safe.cycle.n)
                THEN safe.cycle.rap ELSE BaseRap
    /\ MainHolds("put") =>
         cur.rap = IF SafeHolds("rap") /\ safe.cycle.n < cur.n THEN safe.cycle.rap ELSE rap
    /\ \A i \in 1 .. Len(queue) : queue[i].rap = BaseRap
    /\ SafeHolds("put") => safe.cycle.rap = BaseRap

\* The chip has seen the first writes, as they were made.
AppliedSent ==
    \A k \in 1 .. Len(applied) :
      k \in 1 .. Len(wrote)
        /\ applied[k] = [id |-> k, rap |-> wrote[k].rap, word |-> wrote[k].word]

Order == Numbered /\ Aged /\ Selected /\ AppliedSent
OrderInv == Smooth => Order

\* The lengths and the ages are numbers.
LEMMA OrderNumbers ==
    ASSUME HeldTypes
    PROVE  /\ cycles \in Nat /\ cur.n \in Nat /\ req.n \in Nat /\ safe.cycle.n \in Nat
           /\ Len(queue) \in Nat /\ Len(wrote) \in Nat /\ Len(applied) \in Nat
           /\ \A i \in 1 .. Len(queue) : queue[i].n \in Nat
<1>1. cycles \in Nat /\ cur.n \in Nat /\ req.n \in Nat /\ safe.cycle.n \in Nat
  <2>1. cur.n \in Nat /\ safe.cycle.n \in Nat /\ req.n \in Nat  BY CycleFields DEF HeldTypes
  <2>2. MaxCycles \in Nat /\ cycles \in 0 .. MaxCycles  BY SizesAssumption DEF HeldTypes
  <2>3. QED  BY SMT, <2>1, <2>2
<1>2. queue \in Seq(Cycle) /\ wrote \in Seq(Write) /\ applied \in Seq(Given)
  BY DEF HeldTypes
<1>3. \A i \in 1 .. Len(queue) : queue[i] \in Cycle
  BY <1>2, ElementOfSeq
<1>4. QED  BY <1>1, <1>2, <1>3, LenProperties, CycleFields

\* Where nothing is posted and nothing held changes, the order stays.
LEMMA AsideOrder ==
    ASSUME Order,
           UNCHANGED <<cycles, hrap, wrote, cur, queue, applied, rap>>,
           \/ req' = req
           \/ req' = None /\ req \in {None, cur, safe.cycle},
           "wiped" \in slips' <=> "wiped" \in slips,
           pc'["main"] = pc["main"]
             \/ (pc["main"] \notin Holding /\ pc'["main"] \notin Holding)
             \/ (MainServes /\ MainServes'),
           safe' = safe \/ (SafeServes /\ SafeServes' /\ safe'.cycle = safe.cycle)
    PROVE  Order'
<1>1. /\ MainHolds("put")' <=> MainHolds("put")
      /\ MainHolds("rap")' <=> MainHolds("rap")
      /\ MainServes' <=> MainServes
      /\ pc'["main"] \in Holding <=> pc["main"] \in Holding
      /\ pc'["main"] = "drained" <=> pc["main"] = "drained"
  BY DEF MainHolds, MainServes, Holding
<1>2. /\ SafeHolds("put")' <=> SafeHolds("put")
      /\ SafeHolds("rap")' <=> SafeHolds("rap")
      /\ SafeServes' <=> SafeServes
      /\ safe'.at = "none" <=> safe.at = "none"
      /\ safe'.cycle = safe.cycle
  BY DEF SafeHolds, SafeServes
<1>3. /\ ReqHolds("put")' <=> ReqHolds("put")
      /\ ReqHolds("rap")' <=> ReqHolds("rap")
      /\ req' # None => req' = req
  BY <1>1, <1>2 DEF ReqHolds
<1>4. Numbered'  BY <1>1, <1>2, <1>3 DEF Order, Numbered, Sent, One, ReqHolds
<1>5. Aged'  BY <1>1, <1>2, <1>3 DEF Order, Aged
<1>6. Selected'  BY <1>1, <1>2, <1>3 DEF Order, Selected, BaseRap
<1>7. AppliedSent'  BY DEF Order, AppliedSent
<1>8. QED  BY <1>4, <1>5, <1>6, <1>7 DEF Order

\* A cycle starts when none is held that the 68k still waits for: it is the
\* newest, and no thread serves one.
LEMMA HostOrder ==
    ASSUME CycleInv, HeldTypes, Order, Smooth, Host
    PROVE  Order'
<1>0. /\ cycles \in Nat /\ cur.n \in Nat /\ safe.cycle.n \in Nat
      /\ Len(queue) \in Nat /\ Len(wrote) \in Nat /\ Len(applied) \in Nat
      /\ \A i \in 1 .. Len(queue) : queue[i].n \in Nat /\ queue[i].n <= cycles
      /\ cur.n <= cycles /\ safe.cycle.n <= cycles
  BY OrderNumbers DEF HeldTypes
<1>1. PICK kind \in {"rap", "put", "get"}, r \in Regs, v \in Words \cup {{}} : HostCycle(kind, r, v)
  BY DEF Host, HeldTypes
<1>2. /\ ~busy
      /\ cycles' = cycles + 1 /\ hrap' = (IF kind = "rap" THEN r ELSE hrap)
      /\ UNCHANGED <<cur, safe, queue, applied, rap, pc, slips>>
      /\ req' = [n |-> cycles + 1, kind |-> kind, id |-> Len(wrote'), rap |-> hrap', word |-> v]
      /\ kind # "put" => wrote' = wrote
      /\ kind = "put" => wrote' = Append(wrote, [rap |-> hrap, word |-> v])
  BY <1>1 DEF HostCycle, chipVars, mainVars, histVars
<1>3. req' # None /\ req'.n = cycles + 1 /\ req'.rap = hrap' /\ req'.kind = kind
        /\ req'.id = Len(wrote') /\ req'.word = v
  BY <1>0, <1>2 DEF None
<1>4. req = None  BY <1>2 DEF CycleInv, RequestInv
<1>5. /\ cur.n < req'.n /\ safe.cycle.n < req'.n /\ req' \notin {None, cur, safe.cycle}
      /\ \A i \in 1 .. Len(queue) : queue[i].n < req'.n
  <2>1. /\ cur.n < req'.n /\ safe.cycle.n < req'.n
        /\ \A i \in 1 .. Len(queue) : queue[i].n < req'.n
    BY SMT, <1>0, <1>3
  <2>2. req'.n # cur.n /\ req'.n # safe.cycle.n  BY SMT, <1>0, <2>1, <1>3
  <2>3. QED  BY <1>3, <2>1, <2>2
<1>w. "wiped" \notin slips  BY <1>2 DEF CycleInv, AnswerInv, Smooth, Races
<1>6. /\ Len(wrote') = Len(wrote) + (IF kind = "put" THEN 1 ELSE 0)
      /\ \A k \in 1 .. Len(wrote) : wrote'[k] = wrote[k]
      /\ kind = "put" => wrote'[Len(wrote')] = [rap |-> hrap, word |-> v]
  <2>1. wrote \in Seq(Write) /\ [rap |-> hrap, word |-> v] \in Write  BY DEF HeldTypes, Write
  <2>2. QED  BY SMT, <1>0, <1>2, <2>1, AppendProperties
<1>7. \A c : Sent(c) => c.id \in 1 .. Len(wrote') /\ c.rap = wrote'[c.id].rap /\ c.word = wrote'[c.id].word
  BY SMT, <1>0, <1>6 DEF Sent
<1>8. /\ MainHolds("put")' <=> MainHolds("put")
      /\ MainHolds("rap")' <=> MainHolds("rap")
      /\ SafeHolds("put")' <=> SafeHolds("put")
      /\ SafeHolds("rap")' <=> SafeHolds("rap")
      /\ ~ReqHolds("put") /\ ~ReqHolds("rap")
      /\ ReqHolds("put")' <=> kind = "put"
      /\ ReqHolds("rap")' <=> kind = "rap"
  BY <1>2, <1>3, <1>4, <1>5 DEF MainHolds, SafeHolds, ReqHolds
<1>9. Numbered'
  <2>1. kind = "put" => Sent(req)'
    BY SMT, <1>0, <1>2, <1>3, <1>6 DEF Sent
  <2>2. /\ MainHolds("put") => cur.id = Len(applied) + 1 /\ Sent(cur)'
        /\ pc["main"] = "drained" => cur.kind = "put"
        /\ \A i \in 1 .. Len(queue) :
             /\ queue[i].kind = "put" /\ Sent(queue[i])'
             /\ queue[i].id = Len(applied) + One(MainHolds("put")) + i
        /\ SafeHolds("put") =>
             /\ safe.cycle.id = Len(applied) + One(MainHolds("put")) + Len(queue) + 1
             /\ Sent(safe.cycle)'
    BY <1>2, <1>7 DEF Order, Numbered, Sent
  <2>3. Len(wrote') = Len(applied) + One(MainHolds("put")) + Len(queue)
                      + One(SafeHolds("put")) + (IF kind = "put" THEN 1 ELSE 0)
    <3>1. Len(wrote) = Len(applied) + One(MainHolds("put")) + Len(queue)
                         + One(SafeHolds("put")) + One(ReqHolds("put"))
      BY <1>w DEF Order, Numbered
    <3>2. One(ReqHolds("put")) = 0 /\ One(MainHolds("put")) \in Nat /\ One(SafeHolds("put")) \in Nat
      BY <1>8 DEF One
    <3>3. QED  BY SMT, <1>0, <1>6, <3>1, <3>2
  <2>4. QED  BY <1>2, <1>3, <1>8, <2>1, <2>2, <2>3 DEF Numbered, One
<1>10. Aged'
  BY <1>2, <1>5 DEF Order, Aged
<1>11. Selected'
  BY <1>2, <1>3, <1>8, <1>w DEF Order, Selected, BaseRap
<1>12. AppliedSent'
  <2>1. ASSUME NEW k \in 1 .. Len(applied)
        PROVE  k \in 1 .. Len(wrote) /\ k \in 1 .. Len(wrote') /\ wrote'[k] = wrote[k]
                 /\ applied[k] = [id |-> k, rap |-> wrote[k].rap, word |-> wrote[k].word]
    BY SMT, <1>0, <1>6 DEF Order, AppliedSent
  <2>2. QED  BY <1>2, <2>1 DEF AppliedSent
<1>13. QED  BY <1>9, <1>10, <1>11, <1>12 DEF Order

\* The main thread takes a request: it is the newest cycle, and if it is a write
\* then no RDP write is deferred.
LEMMA TakeOrder ==
    ASSUME LockInv, CycleInv, HeldTypes, Order, Smooth, ServiceTake, Smooth'
    PROVE  Order'
<1>0. DOMAIN pc = Threads /\ Threads = {"main", "rx"}  BY DEF LockInv, Threads
<1>1. /\ UNCHANGED <<cycles, hrap, wrote, req, rap, safe, queue, applied>> /\ cur' = req
      /\ pc["main"] = "service"
      /\ pc'["main"] \in {"look", "answer", "drain"} /\ (pc'["main"] = "drain" <=> req = None)
      /\ "wiped" \in slips' <=> "wiped" \in slips
  BY <1>0 DEF ServiceTake, MainStep, Go, worldVars, slotVars, chipVars
<1>2. /\ req # None => safe.cycle # req
      /\ req.kind \in {"rap", "put"} => ~Deferred
  BY DEF ServiceTake, Smooth, Races
<1>3. CASE req = None
  <2>1. /\ ~MainHolds("put")' /\ ~MainHolds("rap")' /\ ~MainHolds("put") /\ ~MainHolds("rap")
        /\ pc'["main"] \notin Holding /\ ~ReqHolds("put") /\ ~ReqHolds("rap")
        /\ ~ReqHolds("put")' /\ ~ReqHolds("rap")'
        /\ SafeHolds("put")' <=> SafeHolds("put")
        /\ SafeHolds("rap")' <=> SafeHolds("rap")
    BY <1>1, <1>3 DEF MainHolds, ReqHolds, Holding, SafeHolds
  <2>2. Numbered'  BY <1>1, <1>3, <2>1 DEF Order, Numbered, Sent, One
  <2>3. Aged'  BY <1>1, <1>3, <2>1 DEF Order, Aged
  <2>4. Selected'  BY <1>1, <1>3, <2>1 DEF Order, Selected, BaseRap
  <2>5. QED  BY <1>1, <2>2, <2>3, <2>4 DEF Order, AppliedSent
<1>4. CASE req # None
  <2>0. /\ cycles \in Nat /\ safe.cycle.n \in Nat /\ req.n = cycles
        /\ Len(queue) \in Nat /\ Len(wrote) \in Nat /\ Len(applied) \in Nat
    BY <1>4, OrderNumbers DEF CycleInv, RequestInv
  <2>1. safe.at \in {"none", "clear", "finish"} /\ "wiped" \notin slips
    BY <1>2, <1>4 DEF CycleInv, AnswerInv, SafeOwes, Owed, Smooth, Races, HeldTypes
  <2>a. /\ cur.n < req.n /\ safe.cycle.n < req.n /\ cur # req
        /\ \A i \in 1 .. Len(queue) : queue[i].n < req.n
    <3>1. cur.n < req.n /\ safe.cycle.n < req.n /\ \A i \in 1 .. Len(queue) : queue[i].n < req.n
      BY <1>1, <1>2, <1>4 DEF Order, Aged, MainServes
    <3>2. QED  BY SMT, <3>1, OrderNumbers
  <2>2. /\ ~MainHolds("put") /\ ~MainHolds("rap") /\ MainServes'
        /\ ReqHolds("put") <=> req.kind = "put"
        /\ ReqHolds("rap") <=> req.kind = "rap"
        /\ ~ReqHolds("put")' /\ ~ReqHolds("rap")'
        /\ MainHolds("put")' <=> req.kind = "put"
        /\ MainHolds("rap")' <=> req.kind = "rap"
        /\ SafeHolds("put")' <=> SafeHolds("put")
        /\ SafeHolds("rap")' <=> SafeHolds("rap")
    BY <1>1, <1>2, <1>4, <2>a DEF MainHolds, MainServes, ReqHolds, Holding, SafeHolds
  <2>3. req.kind \in {"rap", "put"} => ~SafeHolds("put") /\ queue = <<>> /\ Len(queue) = 0
    BY <1>2, <2>1, EmptySeq DEF Deferred, SafeHolds
  <2>4. Numbered'
    <3>1. CASE req.kind = "put"
      <4>1. /\ Len(wrote) = Len(applied) + 1 /\ req.id = Len(wrote) /\ Sent(req)
        BY SMT, <2>0, <2>1, <2>2, <2>3, <3>1 DEF Order, Numbered, One
      <4>2. Sent(cur)'  BY <1>1, <4>1 DEF Sent
      <4>3. QED  BY SMT, <1>1, <1>4, <2>0, <2>2, <2>3, <3>1, <4>1, <4>2 DEF Numbered, One
    <3>2. CASE req.kind # "put"
      BY <1>1, <1>4, <2>2, <3>2 DEF Order, Numbered, Sent, One
    <3>3. QED  BY <3>1, <3>2
  <2>5. Aged'
    <3>1. cur'.n # safe.cycle.n  BY SMT, <1>1, <2>0, <2>a
    <3>2. QED  BY <1>1, <1>4, <2>2, <2>a, <3>1 DEF Order, Aged
  <2>6. Selected'
    <3>1. safe.cycle.n < cur'.n /\ ~(cur'.n < safe.cycle.n)
      BY SMT, <1>1, <2>0, <2>a
    <3>2. QED
      BY SMT, <1>1, <1>4, <2>0, <2>1, <2>2, <2>3, <3>1 DEF Order, Selected, BaseRap
  <2>7. QED  BY <1>1, <2>4, <2>5, <2>6 DEF Order, AppliedSent
<1>5. QED  BY <1>3, <1>4

\* The main thread clears the REQ slot: either nothing new was in it, or a request
\* is lost.
LEMMA ClearOrder ==
    ASSUME LockInv, HeldTypes, Order, ServiceClear
    PROVE  Order'
<1>0. DOMAIN pc = Threads /\ Threads = {"main", "rx"}  BY DEF LockInv, Threads
<1>1. /\ UNCHANGED <<cycles, hrap, wrote, rap, cur, safe, queue, applied>> /\ req' = None
      /\ pc["main"] = "clear"
      /\ pc'["main"] = (IF cur.kind = "get" THEN "drain" ELSE "wput")
      /\ "wiped" \notin slips' => "wiped" \notin slips /\ req \in {None, cur, safe.cycle}
  BY <1>0 DEF ServiceClear, ClearReq, MainStep, Go, worldVars, chipVars
<1>2. /\ "wiped" \notin slips' => ~ReqHolds("put") /\ ~ReqHolds("rap")
      /\ ~ReqHolds("put")' /\ ~ReqHolds("rap")'
      /\ MainHolds("put")' <=> MainHolds("put")
      /\ MainHolds("rap")' <=> MainHolds("rap")
      /\ SafeHolds("put")' <=> SafeHolds("put")
      /\ SafeHolds("rap")' <=> SafeHolds("rap")
      /\ pc["main"] \in Holding
  BY <1>1 DEF MainHolds, ReqHolds, Holding, SafeHolds
<1>4. Numbered'  BY <1>1, <1>2 DEF Order, Numbered, Sent, One
<1>5. Aged'  BY <1>1, <1>2 DEF Order, Aged
<1>6. Selected'  BY <1>1, <1>2 DEF Order, Selected, BaseRap
<1>7. QED  BY <1>1, <1>4, <1>5, <1>6 DEF Order, AppliedSent

\* The main thread applies a RAP write, with the lock: no cycle is served aside.
LEMMA RapOrder ==
    ASSUME LockInv, Order, ServiceWput, ~Wput("wput")
    PROVE  Order'
<1>0. DOMAIN pc = Threads /\ Threads = {"main", "rx"}  BY DEF LockInv, Threads
<1>1. /\ UNCHANGED <<cycles, hrap, wrote, req, cur, safe, queue, applied, slips>> /\ rap' = cur.rap
      /\ pc["main"] = "wput" /\ cur.kind = "rap" /\ owner = "none" /\ pc'["main"] = "drain"
  BY <1>0 DEF ServiceWput, Go, worldVars, slotVars, mainVars, histVars
<1>2. safe.at = "none"  BY <1>1 DEF LockInv
<1>3. /\ ~MainServes /\ ~MainServes' /\ (SafeServes' <=> SafeServes)
      /\ MainHolds("rap") /\ ~MainHolds("rap")' /\ ~MainHolds("put") /\ ~MainHolds("put")'
      /\ ~SafeHolds("put") /\ ~SafeHolds("rap") /\ ~SafeHolds("put")' /\ ~SafeHolds("rap")'
      /\ ReqHolds("put")' <=> ReqHolds("put")
      /\ ReqHolds("rap")' <=> ReqHolds("rap")
  BY <1>1, <1>2 DEF MainHolds, MainServes, ReqHolds, Holding, SafeHolds, SafeServes
<1>4. Numbered'  BY <1>1, <1>3 DEF Order, Numbered, Sent, One
<1>5. Aged'  BY <1>1, <1>2, <1>3 DEF Order, Aged
<1>6. Selected'  BY <1>1, <1>3 DEF Order, Selected, BaseRap
<1>7. QED  BY <1>1, <1>4, <1>5, <1>6 DEF Order, AppliedSent

\* The main thread gives its RDP write to the chip: it is the next one, and RAP
\* is the one it was made with.
LEMMA GiveOrder ==
    ASSUME LockInv, HeldTypes, Order, NEW from \in {"wput", "drained"}, Wput(from),
           cur.kind = "put"
    PROVE  Order'
<1>0. Len(queue) \in Nat /\ Len(wrote) \in Nat /\ Len(applied) \in Nat  BY OrderNumbers
<1>1. /\ UNCHANGED <<cycles, hrap, wrote, req, rap, safe, queue, slips>>
      /\ pc["main"] = from /\ pc'["main"] = "locked" /\ cur' = None /\ safe.at = "none"
  BY WputGives
<1>a. req # None =>
        /\ 0 < req.n /\ cur # req /\ safe.cycle.n < req.n
        /\ \A i \in 1 .. Len(queue) : queue[i].n < req.n
  <2>1. req # None =>
          /\ cur.n < req.n /\ safe.cycle.n < req.n
          /\ \A i \in 1 .. Len(queue) : queue[i].n < req.n
    BY <1>1 DEF Order, Aged, MainServes, SafeServes
  <2>2. cur.n \in Nat /\ req.n \in Nat  BY OrderNumbers
  <2>3. QED  BY SMT, <2>1, <2>2
<1> DEFINE e == [id |-> cur.id, rap |-> rap, word |-> cur.word]
<1>2. /\ Len(applied') = Len(applied) + 1
      /\ \A k \in 1 .. Len(applied) : applied'[k] = applied[k]
      /\ applied'[Len(applied) + 1] = e
  <2>1. applied \in Seq(Given)  BY DEF HeldTypes
  <2>2. e \in Given  BY CycleFields DEF HeldTypes, Given
  <2>3. applied' = Append(applied, e)  BY WputGives
  <2> HIDE DEF e
  <2>4. QED  BY SMT, <2>1, <2>2, <2>3, AppendProperties
<1>3. /\ ~MainHolds("rap") /\ ~MainHolds("rap")' /\ MainHolds("put") /\ ~MainHolds("put")'
      /\ ~SafeHolds("put") /\ ~SafeHolds("rap") /\ ~SafeHolds("put")' /\ ~SafeHolds("rap")'
      /\ ReqHolds("put")' <=> ReqHolds("put")
      /\ ReqHolds("rap")' <=> ReqHolds("rap")
  BY <1>1, <1>a DEF MainHolds, ReqHolds, Holding, SafeHolds
<1>4. Numbered'
  <2>1. \A i \in 1 .. Len(queue) : queue[i].id = Len(applied') + i
    BY <1>0, <1>2, <1>3 DEF Order, Numbered, One
  <2>2. "wiped" \notin slips => Len(wrote) = Len(applied') + Len(queue) + One(ReqHolds("put"))
    BY SMT, <1>0, <1>2, <1>3 DEF Order, Numbered, One
  <2>3. \A i \in 1 .. Len(queue) : queue[i].kind = "put" /\ Sent(queue[i])'
    BY <1>1 DEF Order, Numbered, Sent
  <2>4. ReqHolds("put") => req.id = Len(wrote) /\ Sent(req)'
    BY <1>1 DEF Order, Numbered, Sent
  <2>5. "wiped" \notin slips' =>
          Len(wrote') = Len(applied') + One(MainHolds("put")') + Len(queue')
                          + One(SafeHolds("put")') + One(ReqHolds("put")')
    BY SMT, <1>0, <1>1, <1>2, <1>3, <2>2 DEF One
  <2>6. \A i \in 1 .. Len(queue') :
          /\ queue'[i].kind = "put" /\ Sent(queue[i])'
          /\ queue'[i].id = Len(applied') + One(MainHolds("put")') + i
    <3>1. One(MainHolds("put")') = 0  BY <1>3 DEF One
    <3>2. Len(applied') \in Nat /\ queue' = queue  BY SMT, <1>0, <1>1, <1>2
    <3>3. QED  BY SMT, <2>1, <2>3, <3>1, <3>2
  <2>7. pc'["main"] # "drained" /\ (ReqHolds("put")' => req'.id = Len(wrote') /\ Sent(req)')
    BY <1>1, <1>3, <2>4
  <2>8. QED  BY <1>3, <2>5, <2>6, <2>7 DEF Numbered
<1>5. Aged'
  <2>1. pc'["main"] \notin Holding /\ safe'.at = "none" /\ cur'.n = 0
    BY <1>1, NoneFields DEF Holding
  <2>2. QED  BY <1>1, <1>a, <2>1 DEF Aged
<1>6. Selected'  BY <1>1, <1>3 DEF Order, Selected, BaseRap
<1>7. AppliedSent'
  <2>1. cur.id = Len(applied) + 1 /\ Sent(cur) /\ cur.rap = rap
    BY <1>3 DEF Order, Numbered, Selected
  <2>2. e = [id |-> Len(applied) + 1, rap |-> wrote[Len(applied) + 1].rap,
             word |-> wrote[Len(applied) + 1].word]
    BY <2>1 DEF Sent
  <2>3. Len(applied) + 1 \in 1 .. Len(wrote)  BY <2>1 DEF Sent
  <2> HIDE DEF e
  <2>4. ASSUME NEW k \in 1 .. Len(applied')
        PROVE  k \in 1 .. Len(wrote) /\ applied'[k] = [id |-> k, rap |-> wrote[k].rap,
                                                        word |-> wrote[k].word]
    <3>1. CASE k = Len(applied) + 1  BY <1>2, <2>2, <2>3, <3>1
    <3>2. CASE k # Len(applied) + 1
      <4>1. k \in 1 .. Len(applied)  BY SMT, <1>0, <1>2, <3>2
      <4>2. QED  BY <1>2, <4>1 DEF Order, AppliedSent
    <3>3. QED  BY <3>1, <3>2
  <2>5. QED  BY <1>1, <2>4 DEF AppliedSent
<1>8. QED  BY <1>4, <1>5, <1>6, <1>7 DEF Order

\* A write leaves the queue: it is older than what is served aside or posted.
LEMMA DrainOrder ==
    ASSUME LockInv, HeldTypes, Order, Drain
    PROVE  Order'
<1>0. DOMAIN pc = Threads /\ Threads = {"main", "rx"}  BY DEF LockInv, Threads
<1>1. /\ UNCHANGED <<cycles, hrap, wrote, req, rap, safe, applied, slips>> /\ pc["main"] = "drain"
      /\ pc'["main"] \in {"int", "retry", "drained"}
      /\ pc'["main"] = "drained" <=> queue # <<>>
      /\ queue = <<>> => cur' = None /\ queue' = queue
      /\ queue # <<>> => cur' = Head(queue) /\ queue' = Tail(queue)
  BY <1>0 DEF Drain, MainStep, Go, AfterDrain, worldVars, slotVars, chipVars
<1>a. req # None => 0 < req.n /\ cur' # req /\ cur'.n < req.n /\ cur # req
  <2>1. req # None => cur.n < req.n /\ \A i \in 1 .. Len(queue) : queue[i].n < req.n
    BY <1>1 DEF Order, Aged, MainServes
  <2>2. cur.n \in Nat /\ req.n \in Nat /\ Len(queue) \in Nat  BY OrderNumbers
  <2>3. queue # <<>> => cur' = queue[1] /\ 1 \in 1 .. Len(queue)
    <3>1. queue \in Seq(Cycle)  BY DEF HeldTypes
    <3>2. QED  BY SMT, <1>1, <3>1, DrainProperties
  <2>4. req # None => 0 < req.n /\ cur # req  BY SMT, <2>1, <2>2
  <2>5. CASE queue = <<>>
    BY <1>1, <2>4, <2>5, NoneFields
  <2>6. CASE queue # <<>>
    <3>1. req # None => cur'.n < req.n  BY <2>1, <2>3, <2>6
    <3>2. cur'.n \in Nat  BY <2>3, <2>6, OrderNumbers
    <3>3. QED  BY SMT, <2>2, <2>4, <3>1, <3>2
  <2>7. QED  BY <2>5, <2>6
<1>2. /\ ~MainHolds("put") /\ ~MainHolds("rap")
      /\ SafeHolds("put")' <=> SafeHolds("put")
      /\ SafeHolds("rap")' <=> SafeHolds("rap")
      /\ SafeServes' <=> SafeServes
      /\ ReqHolds("put")' <=> ReqHolds("put")
      /\ ReqHolds("rap")' <=> ReqHolds("rap")
  BY <1>1, <1>a DEF MainHolds, ReqHolds, Holding, SafeHolds, SafeServes
<1>3. CASE queue = <<>>
  <2>1. ~MainHolds("put")' /\ ~MainHolds("rap")'  BY <1>1, <1>3 DEF MainHolds, Holding
  <2>2. Numbered'  BY <1>1, <1>2, <1>3, <2>1 DEF Order, Numbered, Sent, One
  <2>3. Aged'  BY <1>1, <1>2, <1>3, <1>a DEF Order, Aged, Holding
  <2>4. Selected'  BY <1>1, <1>2, <1>3, <2>1 DEF Order, Selected, BaseRap
  <2>5. QED  BY <1>1, <2>2, <2>3, <2>4 DEF Order, AppliedSent
<1>4. CASE queue # <<>>
  <2>1. /\ cur' = queue[1] /\ Len(queue) \in Nat /\ Len(queue) >= 1
        /\ Len(queue') = Len(queue) - 1 /\ 1 \in 1 .. Len(queue)
        /\ \A i \in 1 .. Len(queue') : i + 1 \in 1 .. Len(queue) /\ queue'[i] = queue[i + 1]
    <3>1. queue \in Seq(Cycle)  BY DEF HeldTypes
    <3>2. QED  BY SMT, <1>1, <1>4, <3>1, DrainProperties
  <2>2. queue[1].kind = "put" /\ queue[1].id = Len(applied) + 1 /\ Sent(queue[1])
    BY SMT, <1>2, <2>1, OrderNumbers DEF Order, Numbered, One
  <2>3. MainHolds("put")' /\ ~MainHolds("rap")'
    BY <1>1, <1>4, <2>1, <2>2 DEF MainHolds, Holding
  <2>4. Numbered'
    <3>0. Len(wrote) \in Nat /\ Len(applied) \in Nat  BY OrderNumbers
    <3>1. Sent(cur)'  BY <1>1, <2>1, <2>2 DEF Sent
    <3>2. ASSUME NEW i \in 1 .. Len(queue')
          PROVE  queue'[i].kind = "put" /\ Sent(queue[i])' /\ queue'[i].id = Len(applied) + 1 + i
      <4>1. queue[i + 1].kind = "put" /\ Sent(queue[i + 1]) /\ queue[i + 1].id = Len(applied) + (i + 1)
        BY SMT, <1>2, <2>1, <3>0 DEF Order, Numbered, One
      <4>2. QED  BY SMT, <1>1, <2>1, <3>0, <4>1 DEF Sent
    <3>3. SafeHolds("put") => /\ safe.cycle.id = Len(applied) + 1 + Len(queue') + 1
                              /\ Sent(safe.cycle)'
      BY SMT, <1>1, <1>2, <2>1, <3>0 DEF Order, Numbered, One, Sent
    <3>4. ReqHolds("put") => req.id = Len(wrote) /\ Sent(req)'
      BY <1>1 DEF Order, Numbered, Sent
    <3>5. "wiped" \notin slips =>
            Len(wrote) = Len(applied) + 1 + Len(queue') + One(SafeHolds("put")) + One(ReqHolds("put"))
      <4>1. "wiped" \notin slips =>
              Len(wrote) = Len(applied) + One(MainHolds("put")) + Len(queue)
                             + One(SafeHolds("put")) + One(ReqHolds("put"))
        BY DEF Order, Numbered
      <4>2. One(MainHolds("put")) = 0 /\ One(SafeHolds("put")) \in Nat /\ One(ReqHolds("put")) \in Nat
        BY <1>2 DEF One
      <4>3. QED  BY SMT, <2>1, <3>0, <4>1, <4>2
    <3>6. QED
      BY <1>1, <1>2, <2>1, <2>2, <2>3, <3>0, <3>1, <3>2, <3>3, <3>4, <3>5 DEF Numbered, One
  <2>5. Aged'
    <3>0. safe.cycle.n \in Nat /\ queue[1].n \in Nat  BY <2>1, OrderNumbers
    <3>1. safe.at # "none" => queue[1].n < safe.cycle.n /\ \A i \in 1 .. Len(queue') : queue'[i].n < safe.cycle.n
      BY <2>1 DEF Order, Aged
    <3>2. safe.at # "none" => cur'.n # safe.cycle.n  BY SMT, <2>1, <3>0, <3>1
    <3>3. req # None => \A i \in 1 .. Len(queue') : queue'[i].n < req.n
      BY <2>1 DEF Order, Aged
    <3>4. QED  BY <1>1, <1>2, <1>a, <3>1, <3>2, <3>3 DEF Order, Aged
  <2>6. Selected'
    <3>1. queue[1].rap = rap /\ \A i \in 1 .. Len(queue') : queue'[i].rap = rap
      BY <1>2, <2>1 DEF Order, Selected, BaseRap
    <3>2. SafeHolds("rap") => ~(safe.cycle.n < cur'.n)
      BY SMT, <2>1, OrderNumbers DEF SafeHolds, Order, Aged
    <3>3. QED  BY <1>1, <1>2, <2>1, <2>3, <3>1, <3>2 DEF Order, Selected, BaseRap
  <2>7. QED  BY <1>1, <2>4, <2>5, <2>6 DEF Order, AppliedSent
<1>5. QED  BY <1>3, <1>4

\* A request is taken aside: it is newer than all that is held.
LEMMA SafeTakeOrder ==
    ASSUME CycleInv, HeldTypes, Order, Smooth, NEW t \in Threads, SafeTake(t), Smooth'
    PROVE  Order'
<1>0. /\ cur.n \in Nat /\ req.n \in Nat
      /\ Len(queue) \in Nat /\ Len(wrote) \in Nat /\ Len(applied) \in Nat
  BY OrderNumbers
<1>1. /\ UNCHANGED <<cycles, hrap, wrote, req, rap, cur, pc, queue, applied>>
      /\ safe.at = "none" /\ req # None /\ safe'.at = "answer" /\ safe'.cycle = req
      /\ "wiped" \in slips' <=> "wiped" \in slips
  BY DEF SafeTake, SafeStep, Waiting, worldVars, slotVars
<1>2. cur # req  BY DEF SafeTake, Smooth, Races
<1>3. /\ "wiped" \notin slips /\ safe.cycle # req
      /\ cur.n < req.n /\ \A i \in 1 .. Len(queue) : queue[i].n < req.n
  <2>1. "wiped" \notin slips  BY <1>1 DEF CycleInv, AnswerInv, Smooth, Races
  <2>2. /\ cur.n < req.n /\ safe.cycle.n < req.n
        /\ \A i \in 1 .. Len(queue) : queue[i].n < req.n
    BY <1>1, <1>2 DEF Order, Aged, SafeServes
  <2>3. safe.cycle # req  BY SMT, <1>0, <2>2
  <2>4. QED  BY <2>1, <2>2, <2>3
<1>4. /\ SafeServes'
      /\ MainHolds("put")' <=> MainHolds("put")
      /\ MainHolds("rap")' <=> MainHolds("rap")
      /\ ~SafeHolds("put") /\ ~SafeHolds("rap")
      /\ SafeHolds("put")' <=> ReqHolds("put")
      /\ SafeHolds("rap")' <=> ReqHolds("rap")
      /\ ~ReqHolds("put")' /\ ~ReqHolds("rap")'
      /\ ReqHolds("put") => ~ReqHolds("rap")
  BY <1>1, <1>2, <1>3 DEF MainHolds, ReqHolds, SafeHolds, SafeServes
<1>5. Numbered'
  <2>3. Len(wrote) = Len(applied) + One(MainHolds("put")) + Len(queue) + One(ReqHolds("put"))
    <3>1. Len(wrote) = Len(applied) + One(MainHolds("put")) + Len(queue)
                         + One(SafeHolds("put")) + One(ReqHolds("put"))
      BY <1>3 DEF Order, Numbered
    <3>2. One(SafeHolds("put")) = 0 /\ One(MainHolds("put")) \in Nat /\ One(ReqHolds("put")) \in Nat
      BY <1>4 DEF One
    <3>3. QED  BY SMT, <1>0, <3>1, <3>2
  <2>1. ReqHolds("put") =>
          /\ req.id = Len(applied) + One(MainHolds("put")) + Len(queue) + 1 /\ Sent(req)
    BY <2>3 DEF Order, Numbered, One
  <2>2. Sent(req) => Sent(safe.cycle)'  BY <1>1 DEF Sent
  <2>4. Len(wrote') = Len(applied') + One(MainHolds("put")') + Len(queue')
                        + One(SafeHolds("put")') + One(ReqHolds("put")')
    <3>1. /\ One(MainHolds("put")') = One(MainHolds("put")) /\ One(MainHolds("put")) \in Nat
          /\ One(SafeHolds("put")') = One(ReqHolds("put")) /\ One(ReqHolds("put")) \in Nat
          /\ One(ReqHolds("put")') = 0
      BY <1>4 DEF One
    <3>2. QED  BY SMT, <1>0, <1>1, <2>3, <3>1
  <2>5. /\ MainHolds("put")' => cur'.id = Len(applied') + 1 /\ Sent(cur)'
        /\ pc'["main"] = "drained" => cur'.kind = "put"
        /\ \A i \in 1 .. Len(queue') :
             /\ queue'[i].kind = "put" /\ Sent(queue[i])'
             /\ queue'[i].id = Len(applied') + One(MainHolds("put")') + i
    BY <1>1, <1>4 DEF Order, Numbered, One, Sent
  <2>6. SafeHolds("put")' =>
          /\ safe'.cycle.id = Len(applied') + One(MainHolds("put")') + Len(queue') + 1
          /\ Sent(safe.cycle)'
    BY <1>1, <1>4, <2>1, <2>2 DEF One
  <2>7. QED  BY <1>4, <2>4, <2>5, <2>6 DEF Numbered
<1>6. Aged'
  <2>1. cur.n # req.n  BY SMT, <1>0, <1>3
  <2>2. QED  BY <1>1, <1>3, <1>4, <2>1 DEF Aged
<1>7. Selected'
  <2>1. cur.n < req.n /\ ~(req.n < cur.n)  BY SMT, <1>0, <1>3
  <2>2. req.rap = hrap /\ (~ReqHolds("rap") => hrap = BaseRap)
    BY <1>1, <1>3, <1>4 DEF Order, Selected
  <2>3. MainHolds("put") => cur.rap = rap  BY <1>4 DEF Order, Selected
  <2>4. \A i \in 1 .. Len(queue) : queue[i].rap = BaseRap  BY DEF Order, Selected
  <2>5. BaseRap' = BaseRap  BY <1>1, <1>4 DEF BaseRap
  <2>6. QED  BY <1>1, <1>4, <2>1, <2>2, <2>3, <2>4, <2>5 DEF Selected
<1>8. QED  BY <1>1, <1>5, <1>6, <1>7 DEF Order, AppliedSent

\* The thread that served a cycle aside clears the REQ slot, as the main one does.
LEMMA SafeClearOrder ==
    ASSUME HeldTypes, Order, NEW t \in Threads, SafeClear(t)
    PROVE  Order'
<1>1. /\ UNCHANGED <<cycles, hrap, wrote, rap, cur, pc, queue, applied>>
      /\ req' = None /\ safe.at = "clear" /\ safe'.at = "finish" /\ safe'.cycle = safe.cycle
      /\ "wiped" \notin slips' => "wiped" \notin slips /\ req \in {None, cur, safe.cycle}
  BY DEF SafeClear, ClearReq, SafeStep, worldVars
<1>2. /\ "wiped" \notin slips' => ~ReqHolds("put") /\ ~ReqHolds("rap")
      /\ ~ReqHolds("put")' /\ ~ReqHolds("rap")'
      /\ MainHolds("put")' <=> MainHolds("put")
      /\ MainHolds("rap")' <=> MainHolds("rap")
      /\ SafeHolds("put")' <=> SafeHolds("put")
      /\ SafeHolds("rap")' <=> SafeHolds("rap")
  BY <1>1 DEF MainHolds, ReqHolds, SafeHolds
<1>3. Numbered'  BY <1>1, <1>2 DEF Order, Numbered, Sent, One
<1>4. Aged'  BY <1>1, <1>2 DEF Order, Aged
<1>5. Selected'  BY <1>1, <1>2 DEF Order, Selected, BaseRap
<1>6. QED  BY <1>1, <1>3, <1>4, <1>5 DEF Order, AppliedSent

\* An RDP write served aside goes to the end of the queue, which has room.
LEMMA DeferOrder ==
    ASSUME HeldTypes, Order, NEW t \in Threads, SafeFinish(t), Smooth', safe.cycle.kind = "put"
    PROVE  Order'
<1>0. /\ cur.n \in Nat /\ safe.cycle.n \in Nat /\ req.n \in Nat
      /\ Len(queue) \in Nat /\ Len(wrote) \in Nat /\ Len(applied) \in Nat
  BY OrderNumbers
<1>1. /\ UNCHANGED <<cycles, hrap, wrote, req, rap, cur, pc, applied>>
      /\ safe.at = "finish" /\ safe'.at = "none" /\ safe'.cycle = None
      /\ queue' = Append(queue, safe.cycle)
      /\ "wiped" \in slips' <=> "wiped" \in slips
  BY DEF SafeFinish, SafeStep, worldVars, slotVars, Smooth, Races
<1>2. /\ Len(queue') = Len(queue) + 1
      /\ \A i \in 1 .. Len(queue) : queue'[i] = queue[i]
      /\ queue'[Len(queue) + 1] = safe.cycle
      /\ \A i \in 1 .. Len(queue') : i \in 1 .. Len(queue) \/ i = Len(queue) + 1
  <2>1. queue \in Seq(Cycle) /\ safe.cycle \in Cycle  BY CycleFields DEF HeldTypes
  <2>2. QED  BY SMT, <1>0, <1>1, <2>1, AppendProperties
<1>a. req # None => 0 < req.n /\ safe.cycle # req /\ safe.cycle.n < req.n
  <2>1. req # None => safe.cycle.n < req.n  BY <1>1 DEF Order, Aged, SafeServes
  <2>2. QED  BY SMT, <1>0, <2>1
<1>3. /\ MainServes' <=> MainServes
      /\ MainHolds("put")' <=> MainHolds("put")
      /\ MainHolds("rap")' <=> MainHolds("rap")
      /\ SafeHolds("put") /\ ~SafeHolds("rap") /\ ~SafeHolds("put")' /\ ~SafeHolds("rap")'
      /\ ReqHolds("put")' <=> ReqHolds("put")
      /\ ReqHolds("rap")' <=> ReqHolds("rap")
  BY <1>1, <1>a DEF MainHolds, MainServes, ReqHolds, SafeHolds
<1>ones. /\ One(MainHolds("put")') = One(MainHolds("put")) /\ One(MainHolds("put")) \in Nat
      /\ One(SafeHolds("put")') = 0 /\ One(SafeHolds("put")) = 1
      /\ One(ReqHolds("put")') = One(ReqHolds("put")) /\ One(ReqHolds("put")) \in Nat
  BY <1>3 DEF One
<1>4. Numbered'
  <2>1. ASSUME NEW i \in 1 .. Len(queue')
        PROVE  /\ queue'[i].kind = "put" /\ Sent(queue[i])'
               /\ queue'[i].id = Len(applied') + One(MainHolds("put")') + i
    <3>1. CASE i \in 1 .. Len(queue)
      BY <1>1, <1>2, <1>3, <3>1 DEF Order, Numbered, One, Sent
    <3>2. CASE i = Len(queue) + 1
      <4>1. safe.cycle.id = Len(applied) + One(MainHolds("put")) + i /\ Sent(safe.cycle)
        BY SMT, <1>0, <1>3, <1>ones, <3>2 DEF Order, Numbered
      <4>2. QED  BY <1>1, <1>2, <1>3, <3>2, <4>1 DEF One, Sent
    <3>3. QED  BY <1>2, <3>1, <3>2
  <2>2. "wiped" \notin slips' =>
          Len(wrote') = Len(applied') + One(MainHolds("put")') + Len(queue')
                          + One(SafeHolds("put")') + One(ReqHolds("put")')
    <3>1. "wiped" \notin slips =>
            Len(wrote) = Len(applied) + One(MainHolds("put")) + Len(queue) + 1 + One(ReqHolds("put"))
      BY <1>0, <1>ones DEF Order, Numbered
    <3>2. QED  BY SMT, <1>0, <1>1, <1>2, <1>ones, <3>1
  <2>3. /\ MainHolds("put")' => cur'.id = Len(applied') + 1 /\ Sent(cur)'
        /\ pc'["main"] = "drained" => cur'.kind = "put"
        /\ ReqHolds("put")' => req'.id = Len(wrote') /\ Sent(req)'
    BY <1>1, <1>3 DEF Order, Numbered, Sent
  <2>4. QED  BY <1>3, <2>1, <2>2, <2>3 DEF Numbered
<1>5. Aged'
  <2>1. req # None => \A i \in 1 .. Len(queue') : queue'[i].n < req.n
    BY <1>1, <1>2, <1>a DEF Order, Aged
  <2>2. safe'.cycle.n = 0  BY <1>1, NoneFields
  <2>3. QED  BY <1>1, <1>3, <1>a, <2>1, <2>2 DEF Order, Aged
<1>6. Selected'
  <2>1. BaseRap' = BaseRap  BY <1>1, <1>3 DEF BaseRap
  <2>2. \A i \in 1 .. Len(queue') : queue'[i].rap = BaseRap
    BY <1>2, <1>3 DEF Order, Selected
  <2>3. QED  BY <1>1, <1>3, <2>1, <2>2 DEF Order, Selected
<1>7. QED  BY <1>1, <1>4, <1>5, <1>6 DEF Order, AppliedSent

\* Another cycle served aside is done with.  A RAP write is applied at once: no
\* write is deferred, and one that the main thread holds is newer.
LEMMA AsideRapOrder ==
    ASSUME CycleInv, HeldTypes, Order, Smooth, NEW t \in Threads, SafeFinish(t), Smooth',
           safe.cycle.kind # "put"
    PROVE  Order'
<1>0. cur.n \in Nat /\ safe.cycle.n \in Nat /\ req.n \in Nat  BY OrderNumbers
<1>1. /\ UNCHANGED <<cycles, hrap, wrote, req, cur, pc, queue, applied>>
      /\ rap' = (IF safe.cycle.kind = "rap" THEN safe.cycle.rap ELSE rap)
      /\ safe.at = "finish" /\ safe'.at = "none" /\ safe'.cycle = None
      /\ "wiped" \in slips' <=> "wiped" \in slips
      /\ safe.cycle.kind = "rap" => ~HeldBefore(safe.cycle) /\ queue = <<>>
  BY DEF SafeFinish, SafeStep, worldVars, slotVars, Smooth, Races, Deferred
<1>a. req # None => 0 < req.n /\ safe.cycle # req
  <2>1. req # None => safe.cycle.n < req.n  BY <1>1 DEF Order, Aged, SafeServes
  <2>2. QED  BY SMT, <1>0, <2>1
<1>2. /\ MainServes' <=> MainServes
      /\ MainHolds("put")' <=> MainHolds("put")
      /\ MainHolds("rap")' <=> MainHolds("rap")
      /\ ~SafeHolds("put") /\ ~SafeHolds("put")' /\ ~SafeHolds("rap")'
      /\ SafeHolds("rap") <=> safe.cycle.kind = "rap"
      /\ ReqHolds("put")' <=> ReqHolds("put")
      /\ ReqHolds("rap")' <=> ReqHolds("rap")
  BY <1>1, <1>a DEF MainHolds, MainServes, ReqHolds, SafeHolds
<1>3. SafeHolds("rap") /\ (MainHolds("put") \/ MainHolds("rap")) =>
        safe.cycle.n < cur.n /\ ~(cur.n < safe.cycle.n)
  <2> SUFFICES ASSUME SafeHolds("rap"), MainHolds("put") \/ MainHolds("rap")
               PROVE  safe.cycle.n < cur.n /\ ~(cur.n < safe.cycle.n)
    OBVIOUS
  <2>1. pc["main"] \in Holding /\ cur.kind # "get" /\ cur.n # safe.cycle.n
    BY <1>1 DEF MainHolds, Order, Aged
  <2>2. ~(cur.n < safe.cycle.n)
    <3>1. CASE MainOwes
      <4>1. cur.n = cycles  BY <3>1 DEF CycleInv, AnswerInv, Owed, Smooth, Races
      <4>2. cycles \in Nat /\ safe.cycle.n <= cycles  BY OrderNumbers DEF HeldTypes
      <4>3. QED  BY SMT, <1>0, <4>1, <4>2
    <3>2. CASE ~MainOwes
      BY <1>1, <1>2, <2>1, <3>2 DEF HeldBefore, Holding, MainOwes
    <3>3. QED  BY <3>1, <3>2
  <2>3. QED  BY SMT, <1>0, <2>1, <2>2
<1>4. Numbered'  BY <1>1, <1>2 DEF Order, Numbered, Sent, One
<1>5. Aged'
  <2>1. safe'.cycle.n = 0  BY <1>1, NoneFields
  <2>2. QED  BY <1>1, <1>2, <1>a, <2>1 DEF Order, Aged
<1>6. Selected'
  <2>1. CASE safe.cycle.kind = "rap"
    <3>1. queue = <<>> /\ Len(queue) = 0  BY <1>1, <2>1, EmptySeq
    <3>2. MainHolds("put") => cur.rap = rap'
      BY <1>1, <1>2, <1>3, <2>1 DEF Order, Selected, MainHolds
    <3>3. "wiped" \notin slips /\ ~ReqHolds("rap") => hrap = BaseRap'
      BY <1>1, <1>2, <1>3, <2>1 DEF Order, Selected, BaseRap, MainHolds
    <3>4. req # None => req.rap = hrap  BY DEF Order, Selected
    <3>5. QED  BY SMT, <1>1, <1>2, <3>1, <3>2, <3>3, <3>4 DEF Selected
  <2>2. CASE safe.cycle.kind # "rap"
    BY <1>1, <1>2, <2>2 DEF Order, Selected, BaseRap
  <2>3. QED  BY <2>1, <2>2
<1>7. QED  BY <1>1, <1>4, <1>5, <1>6 DEF Order, AppliedSent

\* OrderInv is inductive.
LEMMA OrderKept ==
    LockInv /\ CycleInv /\ HeldTypes /\ OrderInv /\ [Next]_vars => OrderInv'
<1> SUFFICES ASSUME LockInv, CycleInv, HeldTypes, OrderInv, [Next]_vars, Smooth'
             PROVE  Order'
  BY DEF OrderInv
<1>0. DOMAIN pc = Threads /\ Threads = {"main", "rx"}  BY DEF LockInv, Threads
<1>1. slips \cap Races \subseteq slips'
  <2>1. CASE ServiceTake
    BY <2>1 DEF ServiceTake
  <2>2. CASE Host \/ MboxAnswer \/ ServiceLook \/ ServiceAnswer \/ ServiceClear \/ Drain
    BY <2>2 DEF Host, HostCycle, MboxAnswer, ServiceLook, ServiceAnswer, ServiceClear, ClearReq,
                Drain, histVars
  <2>3. CASE ServiceWput \/ DrainWput
    BY <2>3 DEF ServiceWput, DrainWput, Wput, histVars
  <2>4. ASSUME NEW t \in Threads, SafeTake(t) \/ SafeAnswer(t) \/ SafeClear(t) \/ SafeFinish(t)
        PROVE  slips \subseteq slips'
    BY <2>4 DEF SafeTake, SafeAnswer, SafeClear, ClearReq, SafeFinish
  <2>5. CASE Elsewhere
    BY <2>5 DEF Elsewhere, Races
  <2>6. QED  BY <2>1, <2>2, <2>3, <2>4, <2>5, ServiceSteps
<1>2. Smooth /\ Order
  BY <1>1 DEF Smooth, OrderInv
<1>3. CASE MboxAnswer
  <2>1. /\ UNCHANGED <<cycles, hrap, wrote, cur, queue, applied, rap, pc, safe, slips>> /\ req' = None
        /\ rsp # 0
    BY <1>3 DEF MboxAnswer, chipVars, mainVars, histVars
  <2>2. req \in {None, cur, safe.cycle}
    BY <1>2, <2>1 DEF CycleInv, AnswerInv, Smooth, Races
  <2>3. QED  BY <1>2, <2>1, <2>2, AsideOrder
<1>4. CASE ServiceLook \/ ServiceAnswer
  <2>1. /\ UNCHANGED <<cycles, hrap, wrote, cur, queue, applied, rap, req, safe, slips>>
        /\ MainServes /\ MainServes'
    BY <1>0, <1>4 DEF ServiceLook, ServiceAnswer, MainStep, Go, worldVars, slotVars, chipVars,
                      MainServes
  <2>2. QED  BY <1>2, <2>1, AsideOrder
<1>5. CASE ServiceWput
  <2>1. CASE ~Wput("wput")  BY <1>2, <1>5, <2>1, RapOrder
  <2>2. CASE cur.kind = "put" /\ Wput("wput")
    BY <1>2, <2>2, GiveOrder
  <2>3. QED
    <3>1. CASE cur.kind = "put"  BY <2>1, <2>2, <3>1
    <3>2. CASE cur.kind # "put"
      <4>1. cur.kind = "rap" /\ pc' = [pc EXCEPT !["main"] = "drain"]
        BY <1>5, <3>2 DEF ServiceWput, Go
      <4>2. ~Wput("wput")  BY <1>0, <4>1, WputGives
      <4>3. QED  BY <2>1, <4>2
    <3>3. QED  BY <3>1, <3>2
<1>6. CASE DrainWput
  <2>1. pc["main"] = "drained" /\ Wput("drained")  BY <1>6 DEF DrainWput, Wput
  <2>2. cur.kind = "put"  BY <1>2, <2>1 DEF Order, Numbered
  <2>3. QED  BY <1>2, <2>1, <2>2, GiveOrder
<1>7. ASSUME NEW t \in Threads, SafeAnswer(t) PROVE Order'
  <2>1. /\ UNCHANGED <<cycles, hrap, wrote, cur, queue, applied, rap, req, pc, slips>>
        /\ SafeServes /\ SafeServes' /\ safe'.cycle = safe.cycle
    BY <1>7 DEF SafeAnswer, SafeStep, worldVars, SafeServes
  <2>2. QED  BY <1>2, <2>1, AsideOrder
<1>8. CASE Elsewhere
  BY <1>2, <1>8, AsideOrder DEF Elsewhere, heldVars
<1>9. QED
  BY <1>2, <1>3, <1>4, <1>5, <1>6, <1>7, <1>8, ServiceSteps, HostOrder, TakeOrder, ClearOrder,
     DrainOrder, SafeTakeOrder, SafeClearOrder, DeferOrder, AsideRapOrder

\* Nothing has been written at first.
LEMMA OrderInit == Init => OrderInv
<1> SUFFICES ASSUME Init PROVE Order
  BY DEF OrderInv
<1>1. /\ wrote = <<>> /\ applied = <<>> /\ queue = <<>> /\ req = None /\ hrap = 0 /\ rap = 0
      /\ safe.at = "none" /\ pc["main"] = "service" /\ slips = {}
  BY DEF Init
<1>2. Len(wrote) = 0 /\ Len(applied) = 0 /\ Len(queue) = 0  BY <1>1, EmptySeq
<1>3. /\ ~MainHolds("put") /\ ~MainHolds("rap") /\ ~SafeHolds("put") /\ ~SafeHolds("rap")
      /\ ~ReqHolds("put") /\ ~ReqHolds("rap")
  BY <1>1 DEF MainHolds, SafeHolds, ReqHolds, Holding
<1>4. QED
  BY SMT, <1>1, <1>2, <1>3 DEF Order, Numbered, Aged, Selected, AppliedSent, BaseRap, One

\* The RDP writes reach the chip once each, in the order of the 68k and with the
\* RAP they were made with, although they are answered first and may be deferred,
\* as long as none of the four races happens; for any number of cycles and
\* frames, and a queue of any size.
THEOREM WritesApplyOnce == Spec => []ExactlyOnce
<1>1. HeldTypes /\ OrderInv => ExactlyOnce
  <2> SUFFICES ASSUME HeldTypes, OrderInv, Smooth
               PROVE  \A k \in DOMAIN applied :
                        k \in DOMAIN wrote
                          /\ applied[k] = [id |-> k, rap |-> wrote[k].rap, word |-> wrote[k].word]
    BY DEF ExactlyOnce, Smooth, Races
  <2>1. DOMAIN applied = 1 .. Len(applied) /\ DOMAIN wrote = 1 .. Len(wrote)
    <3>1. applied \in Seq(Given) /\ wrote \in Seq(Write)  BY DEF HeldTypes
    <3>2. QED  BY <3>1, LenProperties
  <2>2. QED  BY <2>1 DEF OrderInv, Order, AppliedSent
<1>2. QED
  BY <1>1, LockInit, LockKept, CycleInit, CycleKept, HeldInit, HeldKept, OrderInit, OrderKept,
     PTL DEF Spec

-----------------------------------------------------------------------------
(* Type correctness of the rest: the chip, the locked call, the line.      *)

CallTypes ==
    /\ csr0 \in SUBSET Csr0Bits /\ am_initialized \in BOOLEAN
    /\ owner \in Threads \cup {"none"} /\ call \in Call \cup {NoCall}
    /\ owner = "none" <=> call = NoCall
    /\ tdmd_retry \in 0 .. Retries
    /\ pc["main"] = "retry" => tdmd_retry > 0

LineTypes ==
    /\ intSlot \in BOOLEAN /\ last_mbx_int \in BOOLEAN /\ snap \in BOOLEAN
    /\ int_hold \in 0 .. HoldIter \cup {1}

Slips == {"raced", "overtook", "rap", "full", "late", "crossed", "wiped"}

SlotTypes ==
    /\ ramReq \in Nat /\ ramRsp \in Nat /\ ramJob \in Nat
    /\ slips \subseteq Slips

\* What a write of CSR0 leaves is a value of CSR0.
LEMMA CommandTyped ==
    ASSUME NEW old \in SUBSET Csr0Bits, NEW v \in SUBSET Csr0Bits, NEW mode, NEW init
    PROVE  Demanded(Commanded(old, v, mode), mode, init) \in SUBSET Csr0Bits
<1>1. Commanded(old, v, mode) \in SUBSET Csr0Bits
  BY DEF Commanded, Latch, TurnOn, Csr0Bits, WriteOneClears, CommandBits
<1>2. \A c \in SUBSET Csr0Bits : Demanded(c, mode, init) \in SUBSET Csr0Bits
  BY DEF Demanded, TurnOn, Csr0Bits, WriteOneClears, CommandBits
<1>3. QED  BY <1>1, <1>2

\* The records of calls.
LEMMA LineCallTyped ==
    ASSUME NEW c \in SUBSET Csr0Bits, NEW to \in {"delay", "cleared", "drain", "int", "recv"}
    PROVE  LineCall(c, to) \in Call /\ LineCall(c, to) # NoCall
<1>1. IntAsserted(c) \in BOOLEAN  BY DEF IntAsserted
<1>2. LineCall(c, to) \in Call  BY <1>1 DEF LineCall, Call
<1>3. LineCall(c, to).to # NoCall.to  BY DEF LineCall, NoCall
<1>4. QED  BY <1>2, <1>3
LEMMA QuietCallTyped ==
    ASSUME NEW c \in SUBSET Csr0Bits, NEW to \in {"delay", "cleared", "drain", "int", "recv"}
    PROVE  QuietCall(c, to) \in Call /\ QuietCall(c, to) # NoCall
<1>1. QuietCall(c, to) \in Call  BY DEF QuietCall, Call
<1>2. QuietCall(c, to).to # NoCall.to  BY DEF QuietCall, NoCall
<1>3. QED  BY <1>1, <1>2

\* The ring engines leave a value CSR0 can have.
LEMMA TransmittedTyped ==
    ASSUME NEW c \in SUBSET Csr0Bits, NEW d \in Transmitted(c, {})
    PROVE  d \in SUBSET Csr0Bits
  BY SMT DEF Transmitted, Rethink, IntrSources, Csr0Bits, WriteOneClears, CommandBits

\* A thread that enters a locked call keeps the types.
Entered(t) ==
    /\ csr0' \in SUBSET Csr0Bits /\ owner' = t
    /\ call' \in Call /\ call' # NoCall /\ pc' = [pc EXCEPT ![t] = "locked"]

LEMMA EnterTyped ==
    ASSUME NEW t, NEW mid \in SUBSET Csr0Bits, NEW c \in Call, c # NoCall, NEW transfers,
           Enter(t, mid, c, transfers)
    PROVE  Entered(t)
  BY DEF Enter, Entered, Go

\* A write given to the chip.
LEMMA WputTyped ==
    ASSUME LockInv, HeldTypes, CallTypes, NEW from, Wput(from)
    PROVE  CallTypes'
<1> DEFINE v == cur.word
           init == am_initialized \/ IsInit(csr0, v)
           done == Demanded(Commanded(csr0, v, {}), {}, init)
           after(d) == AfterWput(v, Rethink(d \ {"TDMD"}), from)
           final(d) == LineCall(Rethink(d \ {"TDMD"}), after(d))
           mid == IF ~IsInit(csr0, v) THEN csr0
                  ELSE IF IsStart(csr0, v) THEN done \ {"IDON"} ELSE Latch(csr0, v)
<1>0. DOMAIN pc = Threads /\ Threads = {"main", "rx"}  BY DEF LockInv, Threads
<1>1. csr0 \in SUBSET Csr0Bits /\ v \in SUBSET Csr0Bits
  <2>1. v \in Words \cup {{}}  BY CycleFields DEF HeldTypes
  <2>2. QED  BY <2>1, WordsAssumption DEF CallTypes
<1>2. done \in SUBSET Csr0Bits  BY <1>1, CommandTyped
<1>3. mid \in SUBSET Csr0Bits
  BY <1>1, <1>2 DEF Latch, Csr0Bits, WriteOneClears, CommandBits
<1>4. ASSUME NEW d \in SUBSET Csr0Bits PROVE final(d) \in Call /\ final(d) # NoCall
  <2>1. Rethink(d \ {"TDMD"}) \in SUBSET Csr0Bits
    <3>1. d \ {"TDMD"} \in SUBSET Csr0Bits  BY <1>4
    <3>2. QED  BY <3>1 DEF Rethink, Csr0Bits, WriteOneClears, CommandBits
  <2>2. after(d) \in {"delay", "cleared", "drain"}  BY AfterWputPlaces
  <2>3. QED  BY <2>1, <2>2, LineCallTyped
<1>5. /\ Entered("main") /\ am_initialized' \in BOOLEAN
      /\ tdmd_retry' \in {tdmd_retry, Retries}
  <2>1. CASE rap # 0
    <3>1. /\ Enter("main", csr0, QuietCall(csr0, AfterWput(v, csr0, from)), FALSE)
          /\ UNCHANGED <<am_initialized, tdmd_retry>>
      BY <2>1 DEF Wput
    <3>2. QuietCall(csr0, AfterWput(v, csr0, from)) \in Call
            /\ QuietCall(csr0, AfterWput(v, csr0, from)) # NoCall
      <4>1. AfterWput(v, csr0, from) \in {"delay", "cleared", "drain"}  BY AfterWputPlaces
      <4>2. QED  BY <1>1, <4>1, QuietCallTyped
    <3>3. QED  BY <1>1, <3>1, <3>2, EnterTyped DEF CallTypes
  <2>2. CASE rap = 0
    <3>1. WputCsr0(v, from)  BY <2>2 DEF Wput
    <3>2. init \in BOOLEAN  BY DEF IsInit
    <3>3. am_initialized' = init  BY <3>1 DEF WputCsr0
    <3>4. \/ \E d \in Transmitted(done, {}) : Enter("main", done, final(d), TRUE)
          \/ Enter("main", mid, final(done), IsInit(csr0, v))
      BY <3>1 DEF WputCsr0
    <3>5. tdmd_retry' \in {tdmd_retry, Retries}
      BY <3>1 DEF WputCsr0
    <3> HIDE DEF done, mid, final, init, v
    <3>6. Entered("main")
      <4>1. ASSUME NEW d \in Transmitted(done, {}), Enter("main", done, final(d), TRUE)
            PROVE  Entered("main")
        <5>1. d \in SUBSET Csr0Bits  BY <1>2, TransmittedTyped
        <5>2. QED  BY <1>2, <1>4, <4>1, <5>1, EnterTyped
      <4>2. CASE Enter("main", mid, final(done), IsInit(csr0, v))
        BY <1>2, <1>3, <1>4, <4>2, EnterTyped
      <4>3. QED  BY <3>4, <4>1, <4>2
    <3>7. QED  BY <3>2, <3>3, <3>5, <3>6
  <2>3. QED  BY <2>1, <2>2
<1>6. tdmd_retry' \in 0 .. Retries  BY SMT, <1>5, SizesAssumption DEF CallTypes
<1>7. QED  BY <1>0, <1>5, <1>6 DEF Entered, CallTypes

\* Every step keeps the types of the chip and of the locked call.
LEMMA CallKept == LockInv /\ HeldTypes /\ CallTypes /\ [Next]_vars => CallTypes'
<1> SUFFICES ASSUME LockInv, HeldTypes, CallTypes, [Next]_vars PROVE CallTypes'
  OBVIOUS
<1>0. DOMAIN pc = Threads /\ Threads = {"main", "rx"}  BY DEF LockInv, Threads
<1>1. ASSUME UNCHANGED <<csr0, am_initialized, owner, call, tdmd_retry>>,
             pc'["main"] # "retry" \/ pc'["main"] = pc["main"] \/ tdmd_retry > 0
      PROVE  CallTypes'
  BY <1>1 DEF CallTypes
<1>2. CASE Host \/ MboxAnswer \/ MboxRam \/ UNCHANGED vars
  BY <1>1, <1>2 DEF Host, HostCycle, MboxAnswer, MboxRam, vars, chipVars, lockVars, mainVars
<1>3. CASE ServiceTake \/ ServiceLook \/ ServiceAnswer \/ ServiceClear \/ ServiceSettle
             \/ HoldOrRead \/ StoreInt \/ StoreLast
  <2>1. UNCHANGED <<csr0, am_initialized, owner, call, tdmd_retry>>
    BY <1>3 DEF ServiceTake, ServiceLook, ServiceAnswer, ServiceClear, ServiceSettle,
                HoldOrRead, StoreInt, StoreLast, MainStep, chipVars, lockVars
  <2>2. pc'["main"] # "retry"
    BY <1>0, <1>3 DEF ServiceTake, ServiceLook, ServiceAnswer, ServiceClear, ServiceSettle,
                HoldOrRead, StoreInt, StoreLast, MainStep, Go
  <2>3. QED  BY <1>1, <2>1, <2>2
<1>4. CASE Drain
  <2>1. UNCHANGED <<csr0, am_initialized, owner, call, tdmd_retry>>
    BY <1>4 DEF Drain, MainStep, chipVars, lockVars
  <2>2. pc'["main"] = "retry" => tdmd_retry # 0
    BY <1>0, <1>4 DEF Drain, MainStep, Go, AfterDrain
  <2>3. tdmd_retry # 0 => tdmd_retry > 0  BY SMT, SizesAssumption DEF CallTypes
  <2>4. QED  BY <1>1, <2>1, <2>2, <2>3
<1>5. CASE ServiceWput \/ DrainWput
  <2>1. CASE Wput("wput") \/ Wput("drained")  BY <2>1, WputTyped
  <2>2. CASE ServiceWput /\ ~Wput("wput")
    BY <1>0, <1>1, <2>2 DEF ServiceWput, Go, lockVars, mainVars
  <2>3. QED  BY <1>5, <2>1, <2>2 DEF DrainWput
<1>6. CASE Retry
  <2>1. /\ pc["main"] = "retry" /\ am_initialized' = am_initialized
        /\ tdmd_retry' \in {0, tdmd_retry - 1}
    BY <1>6 DEF Retry
  <2>2. tdmd_retry' \in 0 .. Retries  BY SMT, <2>1, SizesAssumption DEF CallTypes
  <2>3. \/ UNCHANGED <<csr0, owner, call>> /\ pc' = [pc EXCEPT !["main"] = "int"]
        \/ Entered("main")
    <3>1. QuietCall(csr0, "int") \in Call /\ QuietCall(csr0, "int") # NoCall
      BY QuietCallTyped DEF CallTypes
    <3>2. ASSUME NEW d \in Transmitted(csr0, {})
          PROVE  LineCall(d, "int") \in Call /\ LineCall(d, "int") # NoCall
      <4>1. d \in SUBSET Csr0Bits  BY TransmittedTyped DEF CallTypes
      <4>2. QED  BY <4>1, LineCallTyped
    <3>3. \/ UNCHANGED <<csr0, owner, call>> /\ pc' = [pc EXCEPT !["main"] = "int"]
          \/ Enter("main", csr0, QuietCall(csr0, "int"), TRUE)
          \/ \E d \in Transmitted(csr0, {}) : Enter("main", csr0, LineCall(d, "int"), TRUE)
      BY <1>6 DEF Retry, Go, lockVars
    <3>4. csr0 \in SUBSET Csr0Bits  BY DEF CallTypes
    <3>5. QED  BY <3>1, <3>2, <3>3, <3>4, EnterTyped
  <2>4. QED  BY <1>0, <2>1, <2>2, <2>3 DEF Entered, CallTypes
<1>7. CASE Refresh
  BY <1>0, <1>1, <1>7 DEF Refresh, Go, chipVars, lockVars
<1>8. CASE RxGotfunc
  <2>1. UNCHANGED <<am_initialized, tdmd_retry>>  BY <1>8 DEF RxGotfunc, mainVars
  <2>2. Entered("rx")
    <3>1. QuietCall(csr0, "recv") \in Call /\ QuietCall(csr0, "recv") # NoCall
      BY QuietCallTyped DEF CallTypes
    <3>2. ASSUME NEW d \in RingOutcomes(csr0)
          PROVE  LineCall(d, "recv") \in Call /\ LineCall(d, "recv") # NoCall
      <4>1. d \in SUBSET Csr0Bits
        BY DEF CallTypes, RingOutcomes, Rethink, IntrSources, Csr0Bits, WriteOneClears, CommandBits
      <4>2. QED  BY <4>1, LineCallTyped
    <3>3. \/ Enter("rx", csr0, QuietCall(csr0, "recv"), FALSE)
          \/ \E d \in RingOutcomes(csr0) : Enter("rx", csr0, LineCall(d, "recv"), TRUE)
      BY <1>8 DEF RxGotfunc
    <3>4. csr0 \in SUBSET Csr0Bits  BY DEF CallTypes
    <3>5. QED  BY <3>1, <3>2, <3>3, <3>4, EnterTyped
  <2>3. QED  BY <1>0, <2>1, <2>2 DEF Entered, CallTypes
<1>9. ASSUME NEW t \in Threads, Locked(t) PROVE CallTypes'
  <2>1. CASE Finish(t)
    <3>1. /\ UNCHANGED <<am_initialized, owner, call, tdmd_retry>> /\ owner = t
          /\ csr0' = call.csr0 /\ pc' = [pc EXCEPT ![t] = "mark"]
      BY <2>1 DEF Finish, Go, lockVars, mainVars
    <3>2. call.csr0 \in SUBSET Csr0Bits  BY SMT DEF CallTypes, Call, NoCall
    <3>3. QED  BY <1>0, <3>1, <3>2 DEF CallTypes
  <2>2. CASE Release(t)
    <3>1. /\ UNCHANGED <<csr0, am_initialized, tdmd_retry>>
          /\ owner' = "none" /\ call' = NoCall /\ pc' = [pc EXCEPT ![t] = call.to]
      BY <2>2 DEF Release, Go, chipVars, mainVars
    <3>2. call.to # "retry"  BY SMT DEF CallTypes, Call, NoCall
    <3>3. QED  BY <1>0, <3>1, <3>2 DEF CallTypes
  <2>3. CASE XferDone(t) \/ XferExpires(t)
    BY <1>1, <2>3 DEF XferDone, XferExpires, chipVars, mainVars
  <2>4. CASE SafeTake(t) \/ SafeAnswer(t) \/ SafeClear(t) \/ SafeFinish(t)
    BY <1>1, <2>4 DEF SafeTake, SafeAnswer, SafeClear, SafeFinish, SafeStep, lockVars
  <2>5. QED  BY <1>9, <2>1, <2>2, <2>3, <2>4 DEF Locked
<1>10. QED
  BY <1>0, <1>2, <1>3, <1>4, <1>5, <1>6, <1>7, <1>8, <1>9 DEF Next, Main

\* The line and what the main thread knows of it.
LEMMA LineKept == CallTypes /\ LineTypes /\ [Next]_vars => LineTypes'
<1> SUFFICES ASSUME CallTypes, LineTypes, [Next]_vars PROVE LineTypes'
  OBVIOUS
<1>0. HoldIter \in Nat  BY SizesAssumption
<1>1. call.raises \in BOOLEAN
  <2>1. CASE call \in Call  BY <2>1 DEF Call
  <2>2. CASE call = NoCall  BY <2>2 DEF NoCall
  <2>3. QED  BY <2>1, <2>2 DEF CallTypes
<1>2. ASSUME UNCHANGED <<intSlot, last_mbx_int, int_hold, snap>> PROVE LineTypes'
  BY <1>2 DEF LineTypes
<1>3. ASSUME AssertInt, UNCHANGED snap PROVE LineTypes'
  <2>1. intSlot' \in BOOLEAN /\ last_mbx_int' \in BOOLEAN  BY <1>3 DEF AssertInt
  <2>2. int_hold' \in 0 .. HoldIter \cup {1}  BY SMT, <1>0, <1>3 DEF AssertInt
  <2>3. QED  BY <1>3, <2>1, <2>2 DEF LineTypes
<1>4. CASE Host \/ MboxAnswer \/ MboxRam \/ UNCHANGED vars
  BY <1>2, <1>4 DEF Host, HostCycle, MboxAnswer, MboxRam, vars, lineVars, mainVars
<1>5. CASE ServiceTake \/ ServiceAnswer \/ ServiceClear \/ Drain
  BY <1>2, <1>5 DEF ServiceTake, ServiceAnswer, ServiceClear, Drain, lineVars
<1>6. CASE ServiceWput \/ DrainWput \/ Retry \/ RxGotfunc
  BY <1>2, <1>6 DEF ServiceWput, DrainWput, Wput, Retry, RxGotfunc, lineVars, mainVars
<1>7. CASE ServiceLook
  <2>1. UNCHANGED snap /\ (AssertInt \/ UNCHANGED lineVars)  BY <1>7 DEF ServiceLook
  <2>2. QED  BY <1>2, <1>3, <2>1 DEF lineVars
<1>8. CASE ServiceSettle
  <2>1. UNCHANGED snap /\ (AssertInt \/ (int_hold' \in {0, 1} /\ UNCHANGED <<intSlot, last_mbx_int>>))
    BY <1>8 DEF ServiceSettle
  <2>2. {0, 1} \subseteq 0 .. HoldIter \cup {1}  BY SMT, <1>0
  <2>3. QED  BY <1>3, <2>1, <2>2 DEF LineTypes
<1>9. CASE HoldOrRead
  <2>1. UNCHANGED <<intSlot, last_mbx_int>>  BY <1>9 DEF HoldOrRead
  <2>2. int_hold' = int_hold \/ (int_hold > 0 /\ int_hold' = int_hold - 1)
    BY <1>9 DEF HoldOrRead
  <2>3. int_hold' \in 0 .. HoldIter \cup {1}  BY SMT, <1>0, <2>2 DEF LineTypes
  <2>4. snap' = snap \/ snap' = IntAsserted(csr0)  BY <1>9 DEF HoldOrRead
  <2>5. IntAsserted(csr0) \in BOOLEAN  BY DEF IntAsserted
  <2>6. QED  BY <2>1, <2>3, <2>4, <2>5 DEF LineTypes
<1>10. CASE StoreInt \/ StoreLast
  BY <1>10 DEF StoreInt, StoreLast, LineTypes
<1>11. CASE Refresh
  <2>1. intSlot' \in BOOLEAN /\ snap' \in BOOLEAN  BY <1>11 DEF Refresh
  <2>2. UNCHANGED <<last_mbx_int, int_hold>>  BY <1>11 DEF Refresh
  <2>3. QED  BY <2>1, <2>2 DEF LineTypes
<1>12. ASSUME NEW t \in Threads, Locked(t) PROVE LineTypes'
  <2>1. CASE Finish(t)
    <3>1. intSlot' \in BOOLEAN  BY <2>1 DEF Finish
    <3>2. UNCHANGED <<last_mbx_int, int_hold, snap>>  BY <2>1 DEF Finish, mainVars
    <3>3. QED  BY <3>1, <3>2 DEF LineTypes
  <2>2. CASE Release(t)
    <3>1. last_mbx_int' \in BOOLEAN  BY <2>2 DEF Release
    <3>2. UNCHANGED <<intSlot, snap>> /\ int_hold' \in {int_hold, HoldIter}
      BY <2>2 DEF Release, mainVars
    <3>3. int_hold' \in 0 .. HoldIter \cup {1}  BY SMT, <1>0, <3>2 DEF LineTypes
    <3>4. QED  BY <3>1, <3>2, <3>3 DEF LineTypes
  <2>3. CASE XferDone(t) \/ XferExpires(t)
    BY <1>2, <2>3 DEF XferDone, XferExpires, lineVars, mainVars
  <2>4. CASE SafeTake(t) \/ SafeAnswer(t) \/ SafeClear(t) \/ SafeFinish(t)
    BY <1>2, <2>4 DEF SafeTake, SafeAnswer, SafeClear, SafeFinish, SafeStep, lineVars
  <2>5. QED  BY <1>12, <2>1, <2>2, <2>3, <2>4 DEF Locked
<1>13. QED
  BY <1>4, <1>5, <1>6, <1>7, <1>8, <1>9, <1>10, <1>11, <1>12 DEF Next, Main, Threads

\* The RAM slots and the races.
LEMMA SlotKept == LockInv /\ SlotTypes /\ [Next]_vars => SlotTypes'
<1> SUFFICES ASSUME LockInv, SlotTypes, [Next]_vars PROVE SlotTypes'
  OBVIOUS
<1>1. ramReq' \in Nat /\ ramRsp' \in Nat /\ ramJob' \in Nat
  <2>1. CASE Moves  BY <2>1 DEF Moves, ramVars, SlotTypes
  <2>2. CASE MboxRam  BY SMT, <2>2 DEF MboxRam, SlotTypes
  <2>3. ASSUME NEW t \in Threads, Enters(t) PROVE  ramReq' \in Nat /\ ramRsp' \in Nat /\ ramJob' \in Nat
    BY SMT, <2>3 DEF Enters, SlotTypes, LockInv
  <2>4. ASSUME NEW t \in Threads, Locked(t) PROVE  ramReq' \in Nat /\ ramRsp' \in Nat /\ ramJob' \in Nat
    <3>1. CASE XferDone(t)  BY SMT, <3>1 DEF XferDone, SlotTypes
    <3>2. CASE XferExpires(t)  BY SMT, <3>2 DEF XferExpires, SlotTypes, LockInv
    <3>3. CASE Finish(t) \/ Release(t)  BY <3>3 DEF Finish, Release, ramVars, SlotTypes
    <3>4. CASE SafeTake(t) \/ SafeAnswer(t) \/ SafeClear(t) \/ SafeFinish(t)
      BY <3>4 DEF SafeTake, SafeAnswer, SafeClear, SafeFinish, SafeStep, ramVars, SlotTypes
    <3>5. QED  BY <2>4, <3>1, <3>2, <3>3, <3>4 DEF Locked
  <2>5. QED  BY <2>1, <2>2, <2>3, <2>4, StepKinds
<1>2. slips' \subseteq slips \cup Slips
  <2>1. CASE Host \/ MboxAnswer \/ MboxRam \/ RxGotfunc \/ UNCHANGED vars
    BY <2>1 DEF Host, HostCycle, MboxAnswer, MboxRam, RxGotfunc, vars, histVars
  <2>2. CASE ServiceTake \/ ServiceLook \/ ServiceAnswer \/ ServiceClear \/ ServiceSettle
               \/ Drain \/ HoldOrRead \/ StoreInt \/ StoreLast
    BY <2>2 DEF ServiceTake, ServiceLook, ServiceAnswer, ServiceClear, ClearReq, ServiceSettle,
                Drain, HoldOrRead, StoreInt, StoreLast, Slips
  <2>3. CASE ServiceWput \/ DrainWput \/ Retry \/ Refresh
    BY <2>3 DEF ServiceWput, DrainWput, Wput, Retry, Refresh, histVars
  <2>4. ASSUME NEW t \in Threads, Locked(t)
        PROVE  slips' \subseteq slips \cup Slips
    BY <2>4 DEF Locked, Finish, Release, XferDone, XferExpires, SafeTake, SafeAnswer, SafeClear,
                ClearReq, SafeFinish, SafeStep, histVars, Slips
  <2>5. QED  BY <2>1, <2>2, <2>3, <2>4 DEF Next, Main, Threads
<1>3. QED  BY <1>1, <1>2 DEF SlotTypes

\* The initial values have these types.
LEMMA CallInit == Init => CallTypes /\ LineTypes /\ SlotTypes
<1> SUFFICES ASSUME Init PROVE CallTypes /\ LineTypes /\ SlotTypes
  OBVIOUS
<1>1. 0 \in 0 .. Retries /\ 0 \in 0 .. HoldIter \cup {1}  BY SMT, SizesAssumption
<1>2. am_initialized \in BOOLEAN /\ intSlot \in BOOLEAN /\ last_mbx_int \in BOOLEAN /\ snap \in BOOLEAN
  BY DEF Init
<1>3. CallTypes  BY <1>1, <1>2 DEF Init, CallTypes, Csr0Bits, CommandBits
<1>4. LineTypes  BY <1>1, <1>2 DEF Init, LineTypes
<1>5. QED  BY <1>3, <1>4 DEF Init, SlotTypes

\* The state stays within its types; the deferred queue keeps a slot free, no
\* answer is for a cycle yet to come, and a call is in progress exactly while
\* the lock is held.
THEOREM DaemonTyped == Spec => []TypeOK
<1>1. HeldTypes /\ CallTypes /\ LineTypes /\ SlotTypes /\ LockInv => TypeOK
  <2> SUFFICES ASSUME HeldTypes, CallTypes, LineTypes, SlotTypes, LockInv PROVE TypeOK
    OBVIOUS
  <2>1. {intSlot, last_mbx_int, am_initialized, snap} \subseteq BOOLEAN
    BY DEF LineTypes, CallTypes
  <2>2. rsp \in 0 .. MaxCycles  BY SMT, SizesAssumption DEF HeldTypes
  <2>3. {req, cur, safe.cycle} \subseteq Cycle \cup {None} /\ {hrap, rap} \subseteq Regs
    BY DEF HeldTypes
  <2>4. {ramReq, ramRsp, ramJob, xfer} \subseteq Nat  BY DEF SlotTypes, LockInv
  <2>5. QED
    BY <2>1, <2>2, <2>3, <2>4 DEF HeldTypes, CallTypes, LineTypes, SlotTypes, Slips, TypeOK
<1>2. QED
  BY <1>1, LockInit, LockKept, HeldInit, HeldKept, CallInit, CallKept, LineKept, SlotKept,
     PTL DEF Spec

=============================================================================
