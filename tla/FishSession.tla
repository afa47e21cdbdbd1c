------------------------------ MODULE FishSession ------------------------------
(***************************************************************************)
(* One FISH+ session (plugins/netfox/fishplus/session.go) after its        *)
(* handshake: requests that share one byte stream, strictly one at a time, *)
(* each under a context that may be cancelled or run out, uploads whose    *)
(* body follows the request, a keepalive noop that never waits for its     *)
(* turn, and Close.                                                        *)
(*                                                                         *)
(* The stream is a sequence of tokens: a text line, the header line of a   *)
(* binary frame, its payload, and the terminator line.  A payload read as  *)
(* lines ends at a line boundary (even), or its last bytes and the line    *)
(* after them become one (ragged).  The remote answers when it likes, and  *)
(* may send a header or a terminator that makes no sense; the connection   *)
(* may fail at any time.  A select whose context is done and whose read is *)
(* ready takes either.                                                     *)
(***************************************************************************)
EXTENDS Naturals, Sequences, SequencesExt

CONSTANTS Requests,   \* the requests ever made, each by a caller of its own
          Kind,       \* what each asks for: "text", "data", "put" or "noop"
          Answers,    \* the answers the remote may give to each kind
          Free,       \* nobody holds requestGate, nobody's body is unread
          Debris      \* the rest of a body whose upload was answered

Kinds       == {"text", "data", "put", "noop"}
Payload     == {"even", "ragged"}               \* what a frame carries
Terminators == {"term", "torn", "badterm"}
Whats       == {"line", "head", "badhead"} \cup Payload \cup Terminators

\* An answer ends at its one terminator, and a payload is where a header
\* announces it; only what asks for data is answered with frames.
WellFormed(k, a) ==
  /\ a \in Seq(Whats) /\ a # <<>>
  /\ \A i \in DOMAIN a :
       /\ a[i] \in Terminators <=> i = Len(a)
       /\ a[i] \in Payload => i > 1 /\ a[i - 1] \in {"head", "badhead"}
       /\ a[i] \in {"head", "badhead"} => k = "data"
       /\ a[i] = "head" => a[i + 1] \in Payload

ASSUME SessionAssumption ==
  /\ Kind \in [Requests -> Kinds]
  /\ \A k \in Kinds : \A a \in Answers[k] : WellFormed(k, a)
  /\ Free \notin Requests /\ Debris \notin Requests \cup {Free}

VARIABLES
  gate,       \* requestGate: who holds it
  closing, broken,   \* Session.closing, Session.broken
  closed,     \* closeOnce is done: closeCh and the transport are closed
  answer,     \* what the remote has still to send: [of, what] tokens
  stream,     \* what it sent and nobody has read
  unread,     \* whose body it has not read to the end, or Free or Debris
  ctx,        \* every request's context: "live", "cancelled" or "expired"
  pc, result, \* where every request under way stands, and what it returns
  sent,       \* history: the answer it is given
  got,        \* the tokens of it that its response was read from
  outcome     \* of a noop: 0 in flight, 1 completed, 2 interrupted by its timeout

stops == <<closing, broken, closed>>
wire == <<answer, stream, unread>>
vars == <<gate, stops, wire, ctx, pc, result, sent, got, outcome>>

Init ==
  /\ gate = Free /\ closing = FALSE /\ broken = FALSE /\ closed = FALSE
  /\ answer = <<>> /\ stream = <<>> /\ unread = Free
  /\ ctx = [q \in Requests |-> "live"] /\ pc = [q \in Requests |-> "idle"]
  /\ result = [q \in Requests |-> "none"]
  /\ sent = [q \in Requests |-> <<>>] /\ got = [q \in Requests |-> <<>>]
  /\ outcome = [q \in Requests |-> 0]

\* The places a request holds Session.mu at, with "write" and "body".
Reading == {"read", "line", "linger", "frame", "drain", "drainframe"}

Goto(q, where) == pc' = [pc EXCEPT ![q] = where]

\* A request returns: what it answers, and then its deferred release.
Return(q, how) == Goto(q, "finished") /\ result' = [result EXCEPT ![q] = how]
\* It is over, and for its caller too, unless it was a noop that failed or an
\* upload the remote has not said to have read: their callers mark the session.
Leave(q, failed) ==
  /\ Goto(q, IF (Kind[q] = "noop" /\ failed) \/ result[q] = "torn" THEN "marking" ELSE "done")
  /\ result' = [result EXCEPT ![q] = "none"] /\ ctx' = [ctx EXCEPT ![q] = "live"]
  /\ sent' = [sent EXCEPT ![q] = <<>>] /\ got' = [got EXCEPT ![q] = <<>>]

\* poisonAndClose.
Poison == broken' = TRUE /\ closed' = TRUE /\ UNCHANGED closing
Spoil == broken' = TRUE /\ UNCHANGED <<closing, closed>>

\* The line a readLine returns now, and how many tokens it is made of.
LineReady ==
  /\ stream # <<>>
  /\ Head(stream).what = "ragged" => Len(stream) > 1
LineTokens == IF Head(stream).what = "ragged" THEN 2 ELSE 1
IsTerminatorOf(q) ==
  Head(stream).of = q /\ Head(stream).what \in Terminators
IsHeader(q) == Kind[q] = "data" /\ Head(stream).what = "head"
IsBadHeader(q) == Kind[q] = "data" /\ Head(stream).what = "badhead"
ReadLine ==
  stream' = SubSeq(stream, LineTokens + 1, Len(stream)) /\ UNCHANGED <<answer, unread>>

\* The read of a frame's payload.
FrameReady == stream # <<>>
ReadFrame == stream' = Tail(stream) /\ UNCHANGED <<answer, unread>>

Unusable == closing \/ broken   \* at the head of every read and write

-----------------------------------------------------------------------------
(* A request's way to the wire.                                            *)

Ask(q) ==
  /\ pc[q] = "idle" /\ Goto(q, "wait")
  /\ UNCHANGED <<gate, stops, wire, ctx, result, sent, got, outcome>>

TakeGate(q) ==
  /\ gate = Free /\ gate' = q /\ Goto(q, "entered")
  /\ UNCHANGED <<ctx, result, sent, got>>

\* acquireRequest's select.
Acquire(q) ==
  /\ pc[q] = "wait" /\ Kind[q] # "noop"
  /\ \/ TakeGate(q)
     \/ (ctx[q] # "live" \/ closed) /\ Leave(q, TRUE) /\ UNCHANGED gate
  /\ UNCHANGED <<stops, wire, outcome>>

\* TryNoop does not wait: with the gate taken, or Session.mu held for a moment
\* by somebody who asks for the session's state, the session is in use.
TryNoop(q) ==
  /\ pc[q] = "wait" /\ Kind[q] = "noop"
  /\ \/ (ctx[q] # "live" \/ closing) /\ Leave(q, TRUE) /\ UNCHANGED gate
     \/ ctx[q] = "live" /\ ~closing /\ TakeGate(q)
     \/ ctx[q] = "live" /\ ~closing /\ Leave(q, FALSE) /\ UNCHANGED gate
  /\ UNCHANGED <<stops, wire, outcome>>

EnterKeepsGate(q) ==  \* (mutant)
  /\ pc[q] = "entered"
  /\ IF ctx[q] # "live" THEN Leave(q, TRUE)
     ELSE /\ UNCHANGED <<ctx, sent, got>>
          /\ IF Unusable THEN Return(q, "broken") ELSE Goto(q, "write") /\ UNCHANGED result
  /\ UNCHANGED <<gate, stops, wire, outcome>>

\* What is checked again once the gate is held.
Enter(q) ==
  /\ pc[q] = "entered"
  /\ IF ctx[q] # "live" THEN Return(q, ctx[q])
     ELSE IF Unusable THEN Return(q, "broken")
     ELSE Goto(q, "write") /\ UNCHANGED result
  /\ UNCHANGED <<gate, stops, wire, ctx, sent, got, outcome>>

\* The remote has the whole request, and its answer.  "torn" is an upload's error
\* without the line that says its body was read: some of it is still to come.
Answered(q) ==
  \E a \in Answers[Kind[q]] :
    /\ sent' = [sent EXCEPT ![q] = a]
    /\ answer' = [i \in 1..Len(a) |-> [of |-> q, what |-> a[i]]]
    /\ unread' = IF "torn" \in Range(a) THEN Debris ELSE Free

\* The write fails, or the body does; or it is interrupted, which closes the
\* transport.
WriteError(q) ==
  /\ pc[q] \in {"write", "body"}
  /\ Spoil \/ Poison
  /\ Return(q, "broken")
  /\ UNCHANGED <<gate, wire, ctx, sent, got, outcome>>

\* A request sent while the remote reads the rest of a body: taken for that rest,
\* or answered after the errors that the rest was answered with.
SentIntoDebris(q) ==
  /\ UNCHANGED sent
  /\ \/ UNCHANGED <<answer, unread>>
     \/ /\ Kind[q] # "put" /\ unread' = Free
        /\ answer' = <<[of |-> Debris, what |-> "line"], [of |-> q, what |-> "term"]>>

\* writeCtx: the request's line is on the wire.
Write(q) ==
  /\ pc[q] = "write" /\ ~Unusable /\ ~closed
  /\ Goto(q, IF Kind[q] = "put" THEN "body" ELSE "read")
  /\ IF unread = Debris THEN SentIntoDebris(q)
     ELSE IF Kind[q] = "put" THEN unread' = q /\ UNCHANGED <<answer, sent>>
     ELSE Answered(q)
  /\ UNCHANGED <<gate, stops, stream, ctx, result, got, outcome>>

\* The payload, or all the writes of a streamed body.
WriteBody(q) ==
  /\ pc[q] = "body" /\ ~Unusable /\ ~closed /\ Goto(q, "read")
  /\ IF unread = q THEN Answered(q) ELSE UNCHANGED <<answer, unread, sent>>
  /\ UNCHANGED <<gate, stops, stream, ctx, result, got, outcome>>

-----------------------------------------------------------------------------
(* readResponseLines.                                                      *)

\* The head of its loop, and the check at the head of readLineCtx.
ReadOn(q) ==
  /\ pc[q] = "read"
  /\ IF ctx[q] # "live" THEN Goto(q, "drain") /\ UNCHANGED <<stops, result>>
     ELSE IF Unusable THEN Spoil /\ Return(q, "broken")
     ELSE Goto(q, "line") /\ UNCHANGED <<stops, result>>
  /\ UNCHANGED <<gate, wire, ctx, sent, got, outcome>>

\* The terminator of a request somebody still wants.
TakeTerminator(q) ==
  LET what == Head(stream).what
  IN  IF what = "badterm" THEN Spoil /\ Return(q, "broken")
      ELSE Return(q, IF what = "torn" THEN "torn" ELSE "ok") /\ UNCHANGED stops

TakeLineAbandons(q) ==  \* (mutant)
  /\ pc[q] \in {"line", "linger"} /\ LineReady /\ ReadLine
  /\ IF ctx[q] # "live" THEN Return(q, ctx[q]) /\ UNCHANGED <<stops, got>>
     ELSE IF IsTerminatorOf(q) THEN TakeTerminator(q) /\ UNCHANGED got
     ELSE IF IsBadHeader(q) THEN Spoil /\ Return(q, "broken") /\ UNCHANGED got
     ELSE /\ Goto(q, IF IsHeader(q) THEN "frame" ELSE "read")
          /\ got' = [got EXCEPT ![q] = Append(@, Head(stream))]
          /\ UNCHANGED <<stops, result>>
  /\ UNCHANGED <<gate, ctx, sent, outcome>>

\* A line came.  Under a context that is done it only tells whether the rest
\* of the answer is still to be drained.
TakeLine(q) ==
  /\ pc[q] \in {"line", "linger"} /\ LineReady /\ ReadLine
  /\ IF ctx[q] # "live" THEN
          /\ UNCHANGED <<stops, got>>
          /\ IF IsTerminatorOf(q) THEN Return(q, ctx[q]) ELSE Goto(q, "drain") /\ UNCHANGED result
     ELSE IF IsTerminatorOf(q) THEN TakeTerminator(q) /\ UNCHANGED got
     ELSE IF IsBadHeader(q) THEN Spoil /\ Return(q, "broken") /\ UNCHANGED got
     ELSE /\ Goto(q, IF IsHeader(q) THEN "frame" ELSE "read")
          /\ got' = [got EXCEPT ![q] = Append(@, Head(stream))]
          /\ UNCHANGED <<stops, result>>
  /\ UNCHANGED <<gate, ctx, sent, outcome>>

\* readLineCtx, when the context is cancelled during the read: the line is
\* waited for all the same, so that the session can be kept.
Linger(q) ==
  /\ pc[q] = "line" /\ ctx[q] = "cancelled" /\ Goto(q, "linger")
  /\ UNCHANGED <<gate, stops, wire, ctx, result, sent, got, outcome>>

\* readFullCtx: the payload of a frame.
TakeFrame(q) ==
  /\ pc[q] = "frame" /\ FrameReady /\ ReadFrame
  /\ got' = [got EXCEPT ![q] = Append(@, Head(stream))]
  /\ Goto(q, "read")
  /\ UNCHANGED <<gate, stops, ctx, result, sent, outcome>>

\* The read fails, by itself or because somebody closed the session.
ReadError(q) ==
  /\ pc[q] \in {"line", "linger", "frame"}
  /\ Spoil /\ Return(q, "broken")
  /\ UNCHANGED <<gate, wire, ctx, sent, got, outcome>>

\* A timer: the context's own deadline, the backstop of a context without one,
\* or the wait for the line after a cancellation.  A frame is given up at any
\* end of its context.
ReadTimeout(q) ==
  /\ pc[q] \in {"line", "linger", "frame"}
  /\ Poison /\ Return(q, IF ctx[q] = "expired" THEN "expired" ELSE "broken")
  /\ UNCHANGED <<gate, wire, ctx, sent, got, outcome>>

-----------------------------------------------------------------------------
(* drainToTerminator.                                                      *)

Drain(q) ==
  /\ pc[q] = "drain" /\ LineReady /\ ReadLine
  /\ IF IsTerminatorOf(q) THEN Return(q, ctx[q]) /\ UNCHANGED stops
     ELSE IF IsBadHeader(q) THEN Return(q, ctx[q]) /\ Spoil
     ELSE /\ Goto(q, IF IsHeader(q) THEN "drainframe" ELSE "drain")
          /\ UNCHANGED <<stops, result>>
  /\ UNCHANGED <<gate, ctx, sent, got, outcome>>

DrainFrame(q) ==
  /\ pc[q] = "drainframe" /\ FrameReady /\ ReadFrame
  /\ Goto(q, "drain")
  /\ UNCHANGED <<gate, stops, ctx, result, sent, got, outcome>>

DrainError(q) ==
  /\ pc[q] \in {"drain", "drainframe"}
  /\ Spoil /\ Return(q, ctx[q])
  /\ UNCHANGED <<gate, wire, ctx, sent, got, outcome>>

\* DrainAfterCancelTimeout: the rest of the answer is not worth the wait.
DrainTimeout(q) ==
  /\ pc[q] \in {"drain", "drainframe"}
  /\ Poison /\ Return(q, ctx[q])
  /\ UNCHANGED <<gate, wire, ctx, sent, got, outcome>>

-----------------------------------------------------------------------------
(* The ends: of a request, of a noop and of the session.                   *)

PublishNothing(q) ==  \* (mutant)
  /\ pc[q] = "finished" /\ Kind[q] = "noop" /\ Goto(q, "published")
  /\ UNCHANGED <<gate, stops, wire, ctx, result, sent, got, outcome>>

\* The goroutine of a noop claims its end before it lets go of the session,
\* unless its timeout was first.
Publish(q) ==
  /\ pc[q] = "finished" /\ Kind[q] = "noop" /\ Goto(q, "published")
  /\ outcome' = IF outcome[q] = 0 THEN [outcome EXCEPT ![q] = 1] ELSE outcome
  /\ UNCHANGED <<gate, stops, wire, ctx, result, sent, got>>

\* The gate is given back.
Release(q) ==
  /\ gate' = Free
  /\ \/ pc[q] = "finished" /\ Kind[q] # "noop" /\ Leave(q, result[q] # "ok")
     \/ /\ pc[q] = "published" /\ Goto(q, "released") /\ UNCHANGED <<ctx, result>>
        /\ sent' = [sent EXCEPT ![q] = <<>>] /\ got' = [got EXCEPT ![q] = <<>>]
  /\ UNCHANGED <<stops, wire, outcome>>

\* The goroutine of a noop hands its result to a caller who may have left.
NoopReturns(q) ==
  /\ pc[q] = "released" /\ Leave(q, result[q] # "ok" \/ outcome[q] = 2)
  /\ UNCHANGED <<gate, stops, wire, outcome>>

\* Close's two flags; CloseTransport is the rest of it.
MarkClosed == closing' = TRUE /\ broken' = TRUE /\ UNCHANGED closed

\* TryNoop's timeout closes the session, unless the noop completed first: its
\* answer may have come by then.  The caller is back; the noop goes on until its
\* read fails.
Interrupt(q) ==
  /\ Kind[q] = "noop" /\ ctx[q] = "expired"
  /\ pc[q] \notin {"idle", "wait", "marking", "done"}
  /\ outcome[q] = 0 /\ outcome' = [outcome EXCEPT ![q] = 2]
  /\ MarkClosed
  /\ UNCHANGED <<gate, wire, ctx, pc, result, sent, got>>

\* The keepalive marks the session after a noop that failed, and an upload's
\* caller after an answer that left the body in doubt, unless it is being
\* closed, once no request holds Session.mu.
MarkBroken(q) ==
  /\ pc[q] = "marking" /\ Goto(q, "done")
  /\ IF closing THEN UNCHANGED stops
     ELSE Spoil /\ \A r \in Requests : pc[r] \notin {"write", "body"} \cup Reading
  /\ UNCHANGED <<gate, wire, ctx, result, sent, got, outcome>>

Close ==
  /\ ~closing /\ MarkClosed
  /\ UNCHANGED <<gate, wire, ctx, pc, result, sent, got, outcome>>

CloseTransport ==
  /\ closing /\ ~closed /\ closed' = TRUE
  /\ UNCHANGED <<gate, closing, broken, wire, ctx, pc, result, sent, got, outcome>>

-----------------------------------------------------------------------------
(* The callers' contexts and the remote.                                   *)

\* A noop's context has a deadline and nobody cancels it.
EndContext(q) ==
  /\ ctx[q] = "live" /\ pc[q] \notin {"idle", "marking", "done"}
  /\ \E how \in {"cancelled", "expired"} :
       /\ Kind[q] = "noop" => how = "expired"
       /\ ctx' = [ctx EXCEPT ![q] = how]
  /\ UNCHANGED <<gate, stops, wire, pc, result, sent, got, outcome>>

RemoteSends ==
  /\ answer # <<>> /\ ~closed
  /\ stream' = Append(stream, Head(answer)) /\ answer' = Tail(answer)
  /\ UNCHANGED <<gate, unread, stops, ctx, pc, result, sent, got, outcome>>

Step(q) ==
  \/ Acquire(q) \/ TryNoop(q) \/ Enter(q)
  \/ Write(q) \/ WriteBody(q) \/ WriteError(q)
  \/ ReadOn(q) \/ TakeLine(q) \/ Linger(q) \/ TakeFrame(q) \/ ReadError(q) \/ ReadTimeout(q)
  \/ Drain(q) \/ DrainFrame(q) \/ DrainError(q) \/ DrainTimeout(q)
  \/ Publish(q) \/ Release(q) \/ NoopReturns(q)

Next ==
  \/ \E q \in Requests : \/ Ask(q) \/ Step(q) \/ MarkBroken(q)
                         \/ Interrupt(q) \/ EndContext(q)
  \/ Close \/ CloseTransport \/ RemoteSends

Spec == Init /\ [][Next]_vars

\* Goroutines go on and timers fire; the remote need never answer, and nobody
\* need cancel or close anything.
FairSpec ==
  /\ Spec /\ WF_vars(CloseTransport)
  /\ \A q \in Requests : WF_vars(Step(q))

-----------------------------------------------------------------------------
Tokens == [of: Requests \cup {Debris}, what: Whats]

TypeOK ==
  /\ gate \in Requests \cup {Free} /\ outcome \in [Requests -> 0..2]
  /\ unread \in Requests \cup {Free, Debris}
  /\ closing \in BOOLEAN /\ broken \in BOOLEAN /\ closed \in BOOLEAN
  /\ answer \in Seq(Tokens) /\ stream \in Seq(Tokens)
  /\ ctx \in [Requests -> {"live", "cancelled", "expired"}]
  /\ pc \in [Requests -> {"idle", "wait", "entered", "write", "body", "finished", "published",
                          "released", "marking", "done"} \cup Reading]
  /\ result \in [Requests -> {"none", "ok", "torn", "broken", "cancelled", "expired"}]
  /\ sent \in [Requests -> Seq(Whats)] /\ got \in [Requests -> Seq(Tokens)]

\* The stream is at a request boundary whenever a request may begin: a session
\* that is not broken and that nobody uses has nothing left to read, and its
\* remote waits for nobody's body, however the last request was cancelled, timed
\* out or failed.  (For what a failed upload leaves behind, see NoDebris.)
BoundaryWhenFree ==
  gate = Free /\ ~broken => answer = <<>> /\ stream = <<>> /\ unread \notin Requests

\* What a request is answered with before the terminator, as it is sent.
Own(q) == [i \in 1..(Len(sent[q]) - 1) |-> [of |-> q, what |-> sent[q][i]]]

\* A request gets its own answer, in order and nothing else, and all of it when it
\* succeeds: no line of a request that was given up before it, no frame read as
\* lines.  A caller that is told each line as it comes relies on the former.  (A
\* request sent into the rest of a body has no answer of its own: see NoDebris.)
OwnAnswer ==
  \A q \in Requests : sent[q] # <<>> =>
    IsPrefix(got[q], Own(q)) /\ (result[q] = "ok" => got[q] = Own(q))

\* Client and helper stay in step: nobody begins in the middle of an answer, and
\* nobody is given another's.
InStep == BoundaryWhenFree /\ OwnAnswer

\* A noop's timeout races its answer (session.go, "This makes the
\* response/timeout boundary deterministic"): it closes the session only while
\* this noop has it, so that no other request is cut off and no session is closed
\* that was found healthy and handed on; and after it nobody else is answered.
TimeoutHitsItsOwn ==
  [][\A q \in Requests :
       /\ outcome[q] # 2 /\ outcome'[q] = 2 => gate = q
       /\ \A r \in Requests \ {q} : outcome[q] = 2 /\ result'[r] = "ok" => result[r] = "ok"]_vars

\* Every request comes back, whatever the remote does and whoever else waits:
\* the gate is never lost and no read is for ever.
EveryCallReturns == \A q \in Requests : pc[q] = "wait" ~> pc[q] \in {"marking", "done"}

\* No request is sent while the remote has the rest of an upload's body to read:
\* it "would be parsed out of the middle of a file" (write.go:112).
NoDebris == \A q \in Requests : pc[q] = "write" /\ ~broken => unread # Debris

\* A drain never reads a frame's payload as lines (docs/FISH+.md, "Binary
\* frames are consumed as frames while draining").
FramesDrainAsFrames ==
  \A q \in Requests :
    pc[q] = "drain" /\ stream # <<>> => Head(stream).what \notin Payload
===============================================================================
