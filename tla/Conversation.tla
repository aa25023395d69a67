---------------------------- MODULE Conversation ----------------------------
(***************************************************************************)
(* Sending a message to a conversation: the handlers for channel messages, *)
(* thread replies, direct messages and the legacy socket, the send-dedupe  *)
(* cache in front of them, and the freshness check that holds the message  *)
(* of a run which has not seen what others wrote meanwhile.                *)
(*                                                                         *)
(* A conversation is a set of scopes: the channel itself, one thread and a *)
(* direct message.  A message row gets its number (messages.seq) when it   *)
(* is inserted and becomes visible when its transaction commits; a         *)
(* rolled-back row leaves a gap.  Every writer takes the advisory lock of  *)
(* a scope for its transaction, but a run of the channel that answers in   *)
(* the thread of its trigger message takes the lock of its own scope.      *)
(***************************************************************************)
EXTENDS Integers, Sequences, FiniteSets, FiniteSetsExt

CONSTANTS
    SendIds,      \* HTTP requests
    Menu,         \* what each of them may ask for
    CRuns,        \* active runs of agents
    RunScope,     \* the scope each run works in
    TaskRuns,     \* runs linked to the task of their thread
    HeldLimit,    \* FreshnessHeldMessageLimit
    CacheCap,     \* capacity of the dedupe cache
    MaxEvents     \* deletions, expiries, restarts, mutes and failures

CScopes == {"top", "th", "dm"}
NoKey  == "nokey"
NoRun_ == "norun"
Paths  == {"create", "reply", "dm", "ws", "wsreply"}

SendForm == [key : STRING, path : Paths, sender : {"user", "agent"},
             scope : CScopes, run : CRuns \cup {NoRun_}, text : STRING,
             retain : BOOLEAN, asTask : BOOLEAN]

ASSUME ConversationConstants ==
    /\ SendIds \subseteq Nat
    /\ \A q \in SendIds : Menu[q] \subseteq SendForm
    /\ RunScope \in [CRuns -> CScopes] /\ TaskRuns \subseteq CRuns
    /\ HeldLimit \in Nat \ {0} /\ CacheCap \in Nat \ {0}
    /\ MaxEvents \in Nat

VARIABLES
    sending,      \* a handler: where it is, what it sends, its row
    rows,     \* messages, by seq
    cache,    \* the dedupe entries, by key (upTo: the rows a result covers)
    age,      \* completed and pending keys, oldest claim first
    crun,     \* the freshness state of a run
    replies,  \* threads.reply_count
    barred,   \* the human may not post: muted, archived, removed
    spent     \* environment steps taken

convVars == <<sending, rows, cache, age, crun, replies, barred, spent>>

SendKeys == {s.key : s \in UNION {Menu[q] : q \in SendIds}} \ {NoKey}
Absent == [state |-> "absent", by |-> 0, upTo |-> 0]

Requested(s) == [pc |-> "acquire", send |-> s, run |-> NoRun_, keepAt |-> 0,
                 row |-> 0]
CSpend == spent < MaxEvents /\ spent' = spent + 1

ConvInit ==
    /\ sending \in [SendIds -> {Requested(s) : s \in UNION {Menu[q] : q \in SendIds}}]
    /\ \A q \in SendIds : sending[q].send \in Menu[q]
    /\ rows = <<>> /\ cache = [k \in SendKeys |-> Absent] /\ age = <<>>
    /\ crun = [r \in CRuns |-> [live |-> TRUE, seen |-> 0, draft |-> "none",
                                consumed |-> FALSE, shown |-> {}]]
    /\ replies = 0 /\ barred = FALSE /\ spent = 0

-----------------------------------------------------------------------------
(* The dedupe cache.                                                       *)

Drop(s, k) == SelectSeq(s, LAMBDA x : x # k)

(* Variant: a failed send leaves its entry in the cache.                   *)
AbortNothing(q) == UNCHANGED <<cache, age>>

(* The claim's entry leaves with the failed send: its waiters try again.   *)
AbortClaim(q) ==
    LET k == sending[q].send.key IN
    IF k # NoKey /\ cache[k].by = q /\ cache[k].state = "pending"
    THEN cache' = [cache EXCEPT ![k] = Absent] /\ age' = Drop(age, k)
    ELSE UNCHANGED <<cache, age>>

(* Completed entries go, oldest claim first, while the cache is too full.  *)
Evicted(c, a) ==
    LET done == {i \in DOMAIN a : c[a[i]].state = "done"}
        over == Len(a) - CacheCap
    IN  {a[i] : i \in {j \in done :
            Cardinality({h \in done : h < j}) < over}}

CompleteClaim(q) ==
    LET k == sending[q].send.key IN
    IF k # NoKey /\ cache[k].by = q /\ cache[k].state = "pending"
    THEN LET c == [cache EXCEPT ![k] = [state |-> "done", by |-> q,
                                        upTo |-> Len(rows)]]
             gone == Evicted(c, age)
         IN  /\ cache' = [x \in SendKeys |-> IF x \in gone THEN Absent ELSE c[x]]
             /\ age' = SelectSeq(age, LAMBDA x : x \notin gone)
    ELSE UNCHANGED <<cache, age>>

(* A request that ends keeps nothing the later steps could read.           *)
SendEnded(q) == [Requested(sending[q].send) EXCEPT !.pc = "ended"]
EndReq(q) == sending' = [sending EXCEPT ![q] = SendEnded(q)]

(* An error answer: the deferred Abort runs, the transaction rolls back.   *)
RefuseSend(q) == EndReq(q) /\ AbortClaim(q)

(* What the cache holds for a key decides: a result is answered at once, a *)
(* pending entry is waited for and looked up again.  A held run that keeps *)
(* its draft names the sequence the hold told it.                          *)
MaySend(q) ==
    LET k == sending[q].send.key IN k \in SendKeys => cache[k].state = "absent"

Acquire(q) ==
    /\ sending[q].pc = "acquire"
    /\ LET k == sending[q].send.key IN
       \/ /\ MaySend(q)
          /\ sending' = [sending EXCEPT ![q].pc = "check", ![q].keepAt =
               IF sending[q].send.retain THEN crun[sending[q].send.run].seen ELSE 0]
          /\ IF k = NoKey THEN UNCHANGED <<cache, age>>
             ELSE /\ cache' = [cache EXCEPT ![k] =
                                 [state |-> "pending", by |-> q, upTo |-> 0]]
                  /\ age' = Append(Drop(age, k), k)
       \/ /\ ~MaySend(q) /\ cache[k].state = "done"
          /\ EndReq(q) /\ UNCHANGED <<cache, age>>
    /\ UNCHANGED <<rows, crun, replies, barred, spent>>

(* A waiting client disconnects.                                           *)
GiveUp(q) ==
    /\ sending[q].pc = "acquire" /\ ~MaySend(q)
    /\ cache[sending[q].send.key].state = "pending"
    /\ CSpend /\ EndReq(q)
    /\ UNCHANGED <<rows, cache, age, crun, replies, barred>>

(* Five minutes pass over a completed entry.                               *)
Forget(k) ==
    /\ cache[k].state = "done" /\ CSpend
    /\ cache' = [cache EXCEPT ![k] = Absent] /\ age' = Drop(age, k)
    /\ UNCHANGED <<sending, rows, crun, replies, barred>>

-----------------------------------------------------------------------------
(* Checks before the transaction.                                          *)

(* A run delivers into its own scope, or from the channel into the thread  *)
(* of its trigger message; elsewhere the message is the agent's alone.     *)
Delivers(r, scope) ==
    RunScope[r] = scope \/ (RunScope[r] = "top" /\ scope = "th")

(* Create: a human is checked for mute and policy, a run must be active.   *)
CheckCreate(q) ==
    /\ sending[q].pc = "check" /\ sending[q].send.path = "create"
    /\ LET s == sending[q].send IN
       IF \/ s.sender = "user" /\ barred
          \/ s.run # NoRun_ /\ ~crun[s.run].live
       THEN RefuseSend(q)
       ELSE /\ sending' = [sending EXCEPT ![q].pc = "lock",
                 ![q].run = IF s.run # NoRun_ /\ Delivers(s.run, s.scope)
                            THEN s.run ELSE NoRun_]
            /\ UNCHANGED <<cache, age>>
    /\ UNCHANGED <<rows, crun, replies, barred, spent>>

Admit(q) ==
    /\ IF sending[q].send.sender = "user" /\ barred THEN RefuseSend(q)
       ELSE sending' = [sending EXCEPT ![q].pc = "lock"] /\ UNCHANGED <<cache, age>>
    /\ UNCHANGED <<rows, crun, replies, barred, spent>>

(* A thread reply: the root exists and is not itself in a thread.          *)
CheckReply(q) == sending[q].pc = "check" /\ sending[q].send.path = "reply" /\ Admit(q)
(* A direct message, which no moderation rule covers.                      *)
CheckDM(q) ==
    /\ sending[q].pc = "check" /\ sending[q].send.path = "dm"
    /\ sending' = [sending EXCEPT ![q].pc = "lock"]
    /\ UNCHANGED <<rows, cache, age, crun, replies, barred, spent>>
(* A legacy socket message to the channel.                                 *)
CheckSocket(q) == sending[q].pc = "check" /\ sending[q].send.path = "ws" /\ Admit(q)
(* A legacy socket reply to the thread.                                    *)
CheckSocketReply(q) ==
    sending[q].pc = "check" /\ sending[q].send.path = "wsreply" /\ Admit(q)

-----------------------------------------------------------------------------
(* The transaction.                                                        *)

(* A delivery locks the scope its run reads, other writers the scope they  *)
(* write.                                                                  *)
LockKey(q) == IF sending[q].run # NoRun_ THEN RunScope[sending[q].run]
              ELSE sending[q].send.scope
InTx(q) == sending[q].pc \in {"locked", "passed", "inserted"}

(* Variant: the scope is not locked.                                        *)
ScopeUnlocked(q) == TRUE

ScopeLockFree(q) == \A p \in SendIds : ~(InTx(p) /\ LockKey(p) = LockKey(q))

LockMessageScope(q) ==
    /\ sending[q].pc = "lock" /\ ScopeLockFree(q)
    /\ sending' = [sending EXCEPT ![q].pc =
                 IF sending[q].run # NoRun_ THEN "locked" ELSE "passed"]
    /\ UNCHANGED <<rows, cache, age, crun, replies, barred, spent>>

(* What a run must have seen before it speaks in its scope: messages of    *)
(* other runs and agents, and corrections humans addressed to it.          *)
Relevant_(r, m) ==
    /\ m.state = "kept" /\ m.scope = RunScope[r] /\ m.run # r
    /\ m.sender = "agent" \/ m.corr = r

Newer(r) == {n \in DOMAIN rows : n > crun[r].seen /\ Relevant_(r, rows[n])}
Shown(r) ==
    {n \in Newer(r) : Cardinality({h \in Newer(r) : h < n}) < HeldLimit}

(* The cursor moves to the last message the hold shows, not to the last    *)
(* that exists.                                                            *)
SeenAfterHold(r) == Max(Shown(r))

(* An unchanged draft that was held for a human's correction needs the     *)
(* explicit decision to keep it, made for the latest sequence.             *)
DraftUnchanged(q) ==
    LET r == sending[q].run
        same == crun[r].draft = sending[q].send.text
    IN  \/ sending[q].keepAt # 0 /\ (~same \/ sending[q].keepAt # crun[r].seen)
        \/ same /\ crun[r].consumed /\ sending[q].keepAt = 0

(* The run's row is locked by the check until the transaction ends.        *)
SenderRunFree(r) ==
    \A p \in SendIds : ~(sending[p].pc \in {"passed", "inserted"} /\ sending[p].run = r)

CheckAndHoldAgentSend(q) ==
    LET r == sending[q].run IN
    /\ sending[q].pc = "locked" /\ SenderRunFree(r)
    /\ \/ /\ ~crun[r].live \/ (Newer(r) = {} /\ DraftUnchanged(q))
          /\ RefuseSend(q) /\ UNCHANGED crun
       \/ /\ crun[r].live /\ Newer(r) # {}
          /\ crun' = [crun EXCEPT
               ![r].seen = SeenAfterHold(r), ![r].shown = @ \cup Shown(r),
               ![r].draft = sending[q].send.text,
               ![r].consumed = @ \/ \E n \in Shown(r) : rows[n].sender = "user"]
          /\ sending' = [sending EXCEPT ![q].pc = "answer"] /\ UNCHANGED <<cache, age>>
       \/ /\ crun[r].live /\ Newer(r) = {} /\ ~DraftUnchanged(q)
          /\ sending' = [sending EXCEPT ![q].pc = "passed"]
          /\ UNCHANGED <<cache, age, crun>>
    /\ UNCHANGED <<rows, replies, barred, spent>>

(* A human's follow-up in a thread corrects the one active run of the      *)
(* thread's task, if there is exactly one.                                 *)
TaskCorrectionRun(scope) ==
    LET active == {r \in TaskRuns : crun[r].live /\ RunScope[r] = scope}
    IN  IF scope = "th" /\ Cardinality(active) = 1
        THEN CHOOSE r \in active : TRUE ELSE NoRun_

InsertRow(q, corr) ==
    /\ rows' = Append(rows, [key |-> sending[q].send.key, scope |-> sending[q].send.scope,
                  sender |-> sending[q].send.sender, run |-> sending[q].run,
                  corr |-> corr, state |-> "open"])
    /\ sending' = [sending EXCEPT ![q].pc = "inserted", ![q].row = Len(rows) + 1]
    /\ UNCHANGED <<cache, age, crun, replies, barred, spent>>

Correction(q) == IF sending[q].send.sender = "user"
                 THEN TaskCorrectionRun(sending[q].send.scope) ELSE NoRun_

(* Create and the socket's reply mark the correction; the other paths      *)
(* store no metadata.                                                      *)
InsertMessage(q) ==
    /\ sending[q].pc = "passed" /\ sending[q].send.path = "create"
    /\ InsertRow(q, Correction(q))
InsertSocketReply(q) ==
    /\ sending[q].pc = "passed" /\ sending[q].send.path = "wsreply"
    /\ InsertRow(q, Correction(q))
InsertReply(q) ==
    sending[q].pc = "passed" /\ sending[q].send.path = "reply" /\ InsertRow(q, NoRun_)
InsertDM(q) ==
    sending[q].pc = "passed" /\ sending[q].send.path = "dm" /\ InsertRow(q, NoRun_)
InsertSocket(q) ==
    sending[q].pc = "passed" /\ sending[q].send.path = "ws" /\ InsertRow(q, NoRun_)

(* The row becomes visible, the draft it answers is retired and the thread *)
(* counts one reply more.                                                  *)
Kept(q) ==
    /\ rows' = [rows EXCEPT ![sending[q].row].state = "kept"]
    /\ crun' = [r \in CRuns |->
         IF r = sending[q].run THEN [crun[r] EXCEPT !.draft = "none"] ELSE crun[r]]
    /\ replies' = IF sending[q].send.scope = "th" THEN replies + 1 ELSE replies

CommitMessage(q) ==
    /\ sending[q].pc = "inserted" /\ Kept(q)
    /\ sending' = [sending EXCEPT ![q].pc = "answer"]
    /\ UNCHANGED <<cache, age, barred, spent>>

(* The commit is reported as an error: it took place, or it did not.       *)
CommitFails(q) ==
    /\ sending[q].pc = "inserted" /\ CSpend /\ RefuseSend(q)
    /\ \/ Kept(q)
       \/ /\ rows' = [rows EXCEPT ![sending[q].row].state = "gone"]
          /\ UNCHANGED <<crun, replies>>
    /\ UNCHANGED barred

(* The broadcasts and triggers are out; the result is cached and answered. *)
Answer(q) ==
    /\ EndReq(q) /\ CompleteClaim(q)
    /\ UNCHANGED <<rows, crun, replies, barred, spent>>
AnswerCreate(q) ==
    sending[q].pc = "answer" /\ sending[q].send.path = "create" /\ Answer(q)
AnswerReply(q) ==
    sending[q].pc = "answer" /\ sending[q].send.path = "reply" /\ Answer(q)
AnswerSocket(q) ==
    sending[q].pc = "answer" /\ sending[q].send.path \in {"ws", "wsreply"} /\ Answer(q)
(* A direct message that should become a task is answered with an error    *)
(* when the conversion fails, although the message is stored.              *)
AnswerDM(q) ==
    /\ sending[q].pc = "answer" /\ sending[q].send.path = "dm"
    /\ \/ Answer(q)
       \/ /\ sending[q].send.asTask /\ CSpend /\ RefuseSend(q)
          /\ UNCHANGED <<rows, crun, replies, barred>>

-----------------------------------------------------------------------------
(* The rest of the system.                                                 *)

(* A human deletes a message of theirs; the reply count stays.             *)
DeleteMessage(n) ==
    /\ n \in DOMAIN rows /\ rows[n].state = "kept" /\ rows[n].sender = "user"
    /\ CSpend
    /\ rows' = [rows EXCEPT ![n].state = "deleted"]
    /\ UNCHANGED <<sending, cache, age, crun, replies, barred>>

(* A run ends; its row may be locked by a delivery.                        *)
CRunEnds(r) ==
    /\ crun[r].live /\ SenderRunFree(r)
    /\ crun' = [crun EXCEPT ![r].live = FALSE]
    /\ UNCHANGED <<sending, rows, cache, age, replies, barred, spent>>

(* A moderator mutes the human, restricts the channel or archives it.      *)
Bar ==
    /\ ~barred /\ CSpend /\ barred' = TRUE
    /\ UNCHANGED <<sending, rows, cache, age, crun, replies>>

(* The server stops: handlers, open transactions and the cache are gone.   *)
CServerStops ==
    /\ CSpend
    /\ sending' = [q \in SendIds |-> SendEnded(q)]
    /\ rows' = [n \in DOMAIN rows |-> IF rows[n].state = "open"
                  THEN [rows[n] EXCEPT !.state = "gone"] ELSE rows[n]]
    /\ cache' = [k \in SendKeys |-> Absent] /\ age' = <<>>
    /\ UNCHANGED <<crun, replies, barred>>

Handler(q) ==
    \/ Acquire(q) \/ CheckCreate(q) \/ CheckReply(q) \/ CheckDM(q)
    \/ CheckSocket(q) \/ CheckSocketReply(q) \/ LockMessageScope(q) \/ CheckAndHoldAgentSend(q)
    \/ InsertMessage(q) \/ InsertReply(q) \/ InsertDM(q) \/ InsertSocket(q)
    \/ InsertSocketReply(q)
    \/ CommitMessage(q) \/ CommitFails(q) \/ AnswerCreate(q) \/ AnswerReply(q)
    \/ AnswerSocket(q) \/ AnswerDM(q)

ConvNext ==
    \/ \E q \in SendIds : Handler(q) \/ GiveUp(q)
    \/ \E k \in SendKeys : Forget(k)
    \/ \E n \in DOMAIN rows : DeleteMessage(n)
    \/ \E r \in CRuns : CRunEnds(r)
    \/ Bar \/ CServerStops

(* Handler goroutines run on: nothing it waits for is held by a client.  *)
ConvFairness == WF_convVars(\E q \in SendIds : Handler(q))

ConvSpec == ConvInit /\ [][ConvNext]_convVars
FairConvSpec == ConvSpec /\ ConvFairness

-----------------------------------------------------------------------------
(* Properties.                                                             *)

Sending(q) == sending[q].pc \notin {"acquire", "ended"}

(* Types; a key is claimed exactly by the request that sends for it, and   *)
(* the age list orders exactly the keys the cache holds.                   *)
ConvTypeOK ==
    /\ \A n \in DOMAIN rows : rows[n].state \in {"open", "kept", "gone", "deleted"}
    /\ \A n \in DOMAIN rows : (rows[n].state = "open") =>
          \E q \in SendIds : sending[q].pc = "inserted" /\ sending[q].row = n
    /\ {age[i] : i \in DOMAIN age} = {k \in SendKeys : cache[k].state # "absent"}
    /\ \A k \in SendKeys : cache[k].state = "pending" =>
          Sending(cache[k].by) /\ sending[cache[k].by].send.key = k
    /\ \A r \in CRuns : crun[r].seen \in 0 .. Len(rows)

(* A client that repeats a send with the same client message id gets one   *)
(* message: no two handlers work for one key, and while the cache keeps    *)
(* the result no further message of that key exists (Acquire, Complete).   *)
SendOnce ==
    /\ \A p, q \in SendIds :
          /\ p # q /\ Sending(p) /\ Sending(q)
          => sending[p].send.key = NoKey \/ sending[p].send.key # sending[q].send.key
    /\ \A k \in SendKeys : cache[k].state = "done" =>
          \A n \in DOMAIN rows :
             rows[n].key = k /\ rows[n].state # "gone" => n <= cache[k].upTo

(* The message of a run that answers the thread from the channel.          *)
CrossScope(m) == m.run # NoRun_ /\ RunScope[m.run] # m.scope

(* A run's message appears in its scope only when the run has seen every   *)
(* message that asks for attention there: a correction cannot land between *)
(* the freshness check and the insert.  Messages that runs of the channel  *)
(* deliver into the thread are the exception (their lock is another one).  *)
NoBlindSend ==
    [][\A n \in DOMAIN rows :
         LET r == rows[n].run IN
         /\ rows[n].state = "open" /\ rows'[n].state = "kept"
         /\ r # NoRun_ /\ ~CrossScope(rows[n])
         => \A m \in DOMAIN rows :
              Relevant_(r, rows[m]) /\ ~CrossScope(rows[m])
                 => m <= crun[r].seen]_convVars

(* The cursor never passes a message the run was not shown: what a hold    *)
(* omits is still newer than the cursor afterwards.                        *)
NothingSkipped ==
    \A r \in CRuns : \A n \in DOMAIN rows :
       n <= crun[r].seen /\ Relevant_(r, rows[n]) /\ ~CrossScope(rows[n])
          => n \in crun[r].shown

(* A run whose end was recorded says nothing more: a message marked with a *)
(* run becomes visible only while that run is active.                      *)
FinishedRunIsSilent ==
    [][\A n \in DOMAIN rows :
         rows[n].state = "open" /\ rows'[n].state = "kept" /\ rows[n].run # NoRun_
            => crun[rows[n].run].live]_convVars

(* reply_count is the number of replies ever stored in the thread.         *)
RepliesCounted ==
    replies = Cardinality({n \in DOMAIN rows :
                rows[n].scope = "th" /\ rows[n].state \in {"kept", "deleted"}})

(* Every request is answered, the duplicates that wait for another one     *)
(* included.                                                               *)
SendsEnd == \A q \in SendIds : sending[q].pc = "acquire" ~> sending[q].pc = "ended"

\* What a send promises: a keyed send takes effect once, an agent is shown
\* every message it was held for, reply counts fit the rows, and nobody sends
\* past an unread message of its scope or after its run has ended.
SendsPromise ==
    /\ []ConvTypeOK
    /\ []SendOnce
    /\ []NothingSkipped
    /\ []RepliesCounted
    /\ NoBlindSend
    /\ FinishedRunIsSilent
=============================================================================
