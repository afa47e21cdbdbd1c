------------------------------ MODULE FishProofs ------------------------------
(* Proofs about FISH+, from below: about one session, for any requests and    *)
(* whatever well-formed answers the remote gives (FishSession), and about the *)
(* pool, for any number of connections, sessions, views and reconnects        *)
(* (FishPool).  The two modules share no variable.                            *)
EXTENDS FishSession, FishPool, SequenceTheorems, TLAPS

(***************************************************************************)
(* Who has the gate                                                        *)
(***************************************************************************)
Ended  == {"finished", "published"}
Inside == {"entered", "write", "body"} \cup Ended \cup Reading

\* The gate has one holder, between its taking and its giving back, and only an
\* answer nobody wants any more is drained.
Gated ==
  /\ \A q \in Requests : gate = q <=> pc[q] \in Inside
  /\ \A q \in Requests : pc[q] \notin Ended \cup {"released"} => result[q] = "none"
  /\ \A q \in Requests : pc[q] \in {"linger", "drain", "drainframe"} => ctx[q] # "live"

\* What a request was answered with is its own until it gives the gate back.
Sent ==
  \A q \in Requests :
    /\ pc[q] \notin Reading \cup Ended => sent[q] = <<>> /\ got[q] = <<>>
    /\ sent[q] # <<>> => sent[q] \in Answers[Kind[q]]

(***************************************************************************)
(* What is left to read                                                    *)
(***************************************************************************)
\* The whole of the answer to q: its own, or that of a request taken for the rest
\* of a body, which had the rest's errors before it.
Whole(q) ==
  IF sent[q] # <<>> THEN [i \in 1..Len(sent[q]) |-> [of |-> q, what |-> sent[q][i]]]
  ELSE <<[of |-> Debris, what |-> "line"], [of |-> q, what |-> "term"]>>

\* What is left of it, on its way or still to be sent, is its end.
Left == Len(stream) + Len(answer)
Remains(w) ==
  /\ Left <= Len(w)
  /\ \A i \in 1..Len(stream) : stream[i] = w[Len(w) - Left + i]
  /\ \A i \in 1..Len(answer) : answer[i] = w[Len(w) - Len(answer) + i]

\* Nothing is left on a session in order while nobody reads, and the remote waits
\* for a body only while it is written.
Quiet ==
  ~ broken =>
    /\ (\A q \in Requests : pc[q] \notin Reading) => answer = <<>> /\ stream = <<>>
    /\ unread \in Requests => pc[unread] = "body"

Answering == \A q \in Requests : pc[q] \in Reading => Remains(Whole(q))

(***************************************************************************)
(* What was gathered                                                       *)
(***************************************************************************)
\* The response has what is not left any more, while somebody still wants it,
\* and stands after a header exactly when it reads a frame.
Gathering(q) ==
  pc[q] \in {"read", "line", "linger", "frame"} =>
    /\ Len(got[q]) + Left = Len(sent[q])
    /\ pc[q] # "frame" => got[q] = <<>> \/ got[q][Len(got[q])].what \notin {"head", "badhead"}
    /\ pc[q] = "frame" => got[q] # <<>> /\ got[q][Len(got[q])].what = "head"

\* It has a beginning of the answer without its end.
Gathered(q) ==
  /\ Len(got[q]) < Len(sent[q])
  /\ \A i \in 1..Len(got[q]) : got[q][i] = [of |-> q, what |-> sent[q][i]]
  /\ pc[q] \in Ended /\ result[q] = "ok" => Len(got[q]) = Len(sent[q]) - 1

Gathers == \A q \in Requests : sent[q] # <<>> => Gathering(q) /\ Gathered(q)

(***************************************************************************)
(* Who ended a noop                                                        *)
(***************************************************************************)
\* A noop's end is claimed before it lets go of the gate; and once a timeout has
\* claimed one, nobody but that noop is on the wire, nor will be.
Claims ==
  /\ \A q \in Requests : pc[q] \in {"published", "released"} => outcome[q] # 0
  /\ \A q, r \in Requests :
       outcome[q] = 2 /\ r # q => broken /\ pc[r] \notin {"write", "body"} \cup Reading

IInv == TypeOK /\ Gated /\ Sent /\ Quiet /\ Answering /\ Gathers /\ Claims

-----------------------------------------------------------------------------
(***************************************************************************)
(* Sequences                                                               *)
(***************************************************************************)
LEMMA Rests ==
  ASSUME NEW T, NEW s \in Seq(T), NEW n \in Nat, n <= Len(s)
  PROVE  /\ SubSeq(s, n + 1, Len(s)) \in Seq(T)
         /\ Len(SubSeq(s, n + 1, Len(s))) = Len(s) - n
         /\ \A i \in 1..(Len(s) - n) : SubSeq(s, n + 1, Len(s))[i] = s[n + i]
<1>1. Len(s) \in Nat /\ \A i \in 1..Len(s) : s[i] \in T
  BY LenProperties, ElementOfSeq
<1>2. n + 1 \in Int /\ Len(s) \in Int /\ \A i \in (n + 1)..Len(s) : s[i] \in T
  BY <1>1
<1>3. /\ SubSeq(s, n + 1, Len(s)) \in Seq(T)
      /\ Len(SubSeq(s, n + 1, Len(s))) = IF n + 1 <= Len(s) THEN Len(s) - (n + 1) + 1 ELSE 0
      /\ \A i \in 1..(Len(s) - (n + 1) + 1) : SubSeq(s, n + 1, Len(s))[i] = s[n + 1 + i - 1]
  BY <1>2, SubSeqProperties
<1> QED BY <1>1, <1>3

LEMMA Heads ==
  ASSUME NEW T, NEW s \in Seq(T), s # <<>>
  PROVE  /\ Head(s) = s[1] /\ Head(s) \in T /\ Tail(s) \in Seq(T)
         /\ Len(s) >= 1 /\ Len(s) \in Nat /\ Len(Tail(s)) = Len(s) - 1
         /\ \A i \in 1..(Len(s) - 1) : Tail(s)[i] = s[i + 1]
<1>1. Len(s) \in Nat /\ Len(s) # 0
  BY LenProperties, EmptySeq
<1>2. s[1] \in T
  BY <1>1, ElementOfSeq
<1> QED BY <1>1, <1>2, HeadTailProperties

(***************************************************************************)
(* The types                                                               *)
(***************************************************************************)
LEMMA AnswersAreTokens ==
  ASSUME NEW q \in Requests, NEW a \in Answers[Kind[q]]
  PROVE  /\ a \in Seq(Whats) /\ a # <<>> /\ WellFormed(Kind[q], a)
         /\ Len(a) \in Nat \ {0} /\ DOMAIN a = 1..Len(a) /\ \A i \in 1..Len(a) : a[i] \in Whats
         /\ [i \in 1..Len(a) |-> [of |-> q, what |-> a[i]]] \in Seq(Tokens)
         /\ Len([i \in 1..Len(a) |-> [of |-> q, what |-> a[i]]]) = Len(a)
<1>1. WellFormed(Kind[q], a)
  BY SessionAssumption
<1>2. a \in Seq(Whats) /\ a # <<>>
  BY <1>1 DEF WellFormed
<1>3. Len(a) \in Nat \ {0} /\ DOMAIN a = 1..Len(a) /\ \A i \in 1..Len(a) : a[i] \in Whats
  BY <1>2, EmptySeq, LenProperties, ElementOfSeq
<1>4. \A i \in 1..Len(a) : [of |-> q, what |-> a[i]] \in Tokens
  BY <1>3 DEF Tokens
<1> QED BY <1>1, <1>2, <1>3, <1>4

LEMMA LineTaken ==
  ASSUME TypeOK, LineReady, ReadLine
  PROVE  /\ stream # <<>> /\ Head(stream) = stream[1] /\ Head(stream) \in Tokens
         /\ LineTokens \in {1, 2} /\ LineTokens <= Len(stream) /\ Len(stream) \in Nat
         /\ Head(stream).what # "ragged" => LineTokens = 1
         /\ stream' \in Seq(Tokens) /\ Len(stream') = Len(stream) - LineTokens
         /\ \A i \in 1..(Len(stream) - LineTokens) : stream'[i] = stream[LineTokens + i]
         /\ answer' = answer /\ unread' = unread
<1>1. stream \in Seq(Tokens) /\ stream # <<>>
  BY DEF TypeOK, LineReady
<1>2. Head(stream) = stream[1] /\ Head(stream) \in Tokens /\ Len(stream) >= 1 /\ Len(stream) \in Nat
  BY <1>1, Heads
<1>3. /\ LineTokens \in {1, 2} /\ LineTokens <= Len(stream)
      /\ Head(stream).what # "ragged" => LineTokens = 1
  BY <1>2 DEF LineTokens, LineReady
<1>4. LineTokens \in Nat
  BY <1>3
<1>5. /\ SubSeq(stream, LineTokens + 1, Len(stream)) \in Seq(Tokens)
      /\ Len(SubSeq(stream, LineTokens + 1, Len(stream))) = Len(stream) - LineTokens
      /\ \A i \in 1..(Len(stream) - LineTokens) :
           SubSeq(stream, LineTokens + 1, Len(stream))[i] = stream[LineTokens + i]
  BY <1>1, <1>3, <1>4, Rests
<1>6. /\ stream' = SubSeq(stream, LineTokens + 1, Len(stream))
      /\ answer' = answer /\ unread' = unread
  BY DEF ReadLine
<1> QED BY <1>1, <1>2, <1>3, <1>5, <1>6

LEMMA FrameTaken ==
  ASSUME TypeOK, FrameReady, ReadFrame
  PROVE  /\ stream # <<>> /\ Head(stream) = stream[1] /\ Head(stream) \in Tokens
         /\ Len(stream) \in Nat /\ Len(stream) >= 1
         /\ stream' \in Seq(Tokens) /\ Len(stream') = Len(stream) - 1
         /\ \A i \in 1..(Len(stream) - 1) : stream'[i] = stream[i + 1]
         /\ answer' = answer /\ unread' = unread
  BY Heads DEF TypeOK, FrameReady, ReadFrame

LEMMA AnswerStarts ==
  ASSUME TypeOK, NEW q \in Requests, Answered(q)
  PROVE  /\ sent' \in [Requests -> Seq(Whats)] /\ answer' \in Seq(Tokens) /\ unread' \in {Free, Debris}
         /\ sent'[q] \in Answers[Kind[q]]
         /\ \A r \in Requests \ {q} : sent'[r] = sent[r]
         /\ answer' = [i \in 1..Len(sent'[q]) |-> [of |-> q, what |-> sent'[q][i]]]
         /\ Len(answer') = Len(sent'[q])
<1>1. PICK a \in Answers[Kind[q]] :
        /\ sent' = [sent EXCEPT ![q] = a]
        /\ answer' = [i \in 1..Len(a) |-> [of |-> q, what |-> a[i]]]
        /\ unread' = IF "torn" \in Range(a) THEN Debris ELSE Free
  BY DEF Answered
<1>2. /\ a \in Seq(Whats)
      /\ [i \in 1..Len(a) |-> [of |-> q, what |-> a[i]]] \in Seq(Tokens)
      /\ Len([i \in 1..Len(a) |-> [of |-> q, what |-> a[i]]]) = Len(a)
  BY AnswersAreTokens
<1>3. sent'[q] = a
  BY <1>1 DEF TypeOK
<1> QED BY <1>1, <1>2, <1>3 DEF TypeOK

LEMMA DebrisAnswers ==
  ASSUME TypeOK, NEW q \in Requests, SentIntoDebris(q)
  PROVE  /\ sent' = sent
         /\ \/ answer' = answer /\ unread' = unread
            \/ /\ answer' = <<[of |-> Debris, what |-> "line"], [of |-> q, what |-> "term"]>>
               /\ answer' \in Seq(Tokens) /\ unread' = Free
<1>1. [of |-> Debris, what |-> "line"] \in Tokens /\ [of |-> q, what |-> "term"] \in Tokens
  BY DEF Tokens, Whats, Terminators
<1>2. <<[of |-> Debris, what |-> "line"], [of |-> q, what |-> "term"]>> \in Seq(Tokens)
  BY <1>1
<1> QED BY <1>2 DEF SentIntoDebris

LEMMA TypesHold ==
  ASSUME TypeOK, Gated, [Next]_vars
  PROVE  TypeOK'
<1> USE SessionAssumption
<1>1. ASSUME NEW q \in Requests, Ask(q) PROVE TypeOK'
  <2>1. pc' \in [Requests -> {"idle", "wait", "entered", "write", "body", "finished", "published",
                          "released", "marking", "done"} \cup Reading]
    BY <1>1 DEF Ask, Goto, Return, Leave, TakeGate, TypeOK, Reading
  <2>2. result' \in [Requests -> {"none", "ok", "torn", "broken", "cancelled", "expired"}]
    BY <1>1 DEF Ask, Return, Leave, TakeGate, TakeTerminator, TypeOK
  <2>3. ctx' \in [Requests -> {"live", "cancelled", "expired"}]
    BY <1>1 DEF Ask, Leave, TakeGate, TypeOK
  <2>4. gate' \in Requests \cup {Free} /\ outcome' \in [Requests -> 0..2]
    BY <1>1 DEF Ask, TakeGate, TypeOK
  <2>5. closing' \in BOOLEAN /\ broken' \in BOOLEAN /\ closed' \in BOOLEAN
    BY <1>1 DEF Ask, Spoil, Poison, TakeTerminator, MarkClosed, stops, TypeOK
  <2>6. sent' \in [Requests -> Seq(Whats)] /\ got' \in [Requests -> Seq(Tokens)]
    BY <1>1, EmptySeq DEF Ask, Leave, TakeGate, TypeOK
  <2>7. answer' \in Seq(Tokens) /\ stream' \in Seq(Tokens) /\ unread' \in Requests \cup {Free, Debris}
    BY <1>1 DEF Ask, wire, TypeOK
  <2> QED BY <2>1, <2>2, <2>3, <2>4, <2>5, <2>6, <2>7 DEF TypeOK
<1>2. ASSUME NEW q \in Requests, Acquire(q) PROVE TypeOK'
  <2>1. pc' \in [Requests -> {"idle", "wait", "entered", "write", "body", "finished", "published",
                          "released", "marking", "done"} \cup Reading]
    <3>1. PICK p \in {"entered", "marking", "done"} : pc' = [pc EXCEPT ![q] = p]
      BY <1>2 DEF Acquire, Goto, Leave, TakeGate
    <3>2. p \in {"finished", "entered", "write", "marking", "done"} \cup Reading
      BY <3>1 DEF Reading
    <3> QED BY <3>1, <3>2 DEF TypeOK
  <2>2. result' \in [Requests -> {"none", "ok", "torn", "broken", "cancelled", "expired"}]
    BY <1>2 DEF Acquire, Return, Leave, TakeGate, TakeTerminator, TypeOK
  <2>3. ctx' \in [Requests -> {"live", "cancelled", "expired"}]
    BY <1>2 DEF Acquire, Leave, TakeGate, TypeOK
  <2>4. gate' \in Requests \cup {Free} /\ outcome' \in [Requests -> 0..2]
    BY <1>2 DEF Acquire, TakeGate, TypeOK
  <2>5. closing' \in BOOLEAN /\ broken' \in BOOLEAN /\ closed' \in BOOLEAN
    BY <1>2 DEF Acquire, Spoil, Poison, TakeTerminator, MarkClosed, stops, TypeOK
  <2>6. sent' \in [Requests -> Seq(Whats)] /\ got' \in [Requests -> Seq(Tokens)]
    <3>1. /\ sent' = sent \/ sent' = [sent EXCEPT ![q] = <<>>]
          /\ got' = got \/ got' = [got EXCEPT ![q] = <<>>]
      BY <1>2 DEF Acquire, Leave, TakeGate
    <3>2. <<>> \in Seq(Whats) /\ <<>> \in Seq(Tokens)
      BY EmptySeq
    <3>3. sent' \in [Requests -> Seq(Whats)]
      BY <3>1, <3>2 DEF TypeOK
    <3>4. got' \in [Requests -> Seq(Tokens)]
      BY <3>1, <3>2 DEF TypeOK
    <3> QED BY <3>3, <3>4
  <2>7. answer' \in Seq(Tokens) /\ stream' \in Seq(Tokens) /\ unread' \in Requests \cup {Free, Debris}
    BY <1>2 DEF Acquire, wire, TypeOK
  <2> QED BY <2>1, <2>2, <2>3, <2>4, <2>5, <2>6, <2>7 DEF TypeOK
<1>3. ASSUME NEW q \in Requests, TryNoop(q) PROVE TypeOK'
  <2>1. pc' \in [Requests -> {"idle", "wait", "entered", "write", "body", "finished", "published",
                          "released", "marking", "done"} \cup Reading]
    <3>1. PICK p \in {"entered", "marking", "done"} : pc' = [pc EXCEPT ![q] = p]
      BY <1>3 DEF TryNoop, Goto, Leave, TakeGate
    <3>2. p \in {"finished", "entered", "write", "marking", "done"} \cup Reading
      BY <3>1 DEF Reading
    <3> QED BY <3>1, <3>2 DEF TypeOK
  <2>2. result' \in [Requests -> {"none", "ok", "torn", "broken", "cancelled", "expired"}]
    BY <1>3 DEF TryNoop, Return, Leave, TakeGate, TakeTerminator, TypeOK
  <2>3. ctx' \in [Requests -> {"live", "cancelled", "expired"}]
    <3>1. ctx' = ctx \/ ctx' = [ctx EXCEPT ![q] = "live"]
      BY <1>3 DEF TryNoop, Leave, TakeGate
    <3> QED BY <3>1 DEF TypeOK
  <2>4. gate' \in Requests \cup {Free} /\ outcome' \in [Requests -> 0..2]
    BY <1>3 DEF TryNoop, TakeGate, TypeOK
  <2>5. closing' \in BOOLEAN /\ broken' \in BOOLEAN /\ closed' \in BOOLEAN
    BY <1>3 DEF TryNoop, Spoil, Poison, TakeTerminator, MarkClosed, stops, TypeOK
  <2>6. sent' \in [Requests -> Seq(Whats)] /\ got' \in [Requests -> Seq(Tokens)]
    <3>1. /\ sent' = sent \/ sent' = [sent EXCEPT ![q] = <<>>]
          /\ got' = got \/ got' = [got EXCEPT ![q] = <<>>]
      BY <1>3 DEF TryNoop, Leave, TakeGate
    <3>2. <<>> \in Seq(Whats) /\ <<>> \in Seq(Tokens)
      BY EmptySeq
    <3>3. sent' \in [Requests -> Seq(Whats)]
      BY <3>1, <3>2 DEF TypeOK
    <3>4. got' \in [Requests -> Seq(Tokens)]
      BY <3>1, <3>2 DEF TypeOK
    <3> QED BY <3>3, <3>4
  <2>7. answer' \in Seq(Tokens) /\ stream' \in Seq(Tokens) /\ unread' \in Requests \cup {Free, Debris}
    BY <1>3 DEF TryNoop, wire, TypeOK
  <2> QED BY <2>1, <2>2, <2>3, <2>4, <2>5, <2>6, <2>7 DEF TypeOK
<1>4. ASSUME NEW q \in Requests, Enter(q) PROVE TypeOK'
  <2>1. pc' \in [Requests -> {"idle", "wait", "entered", "write", "body", "finished", "published",
                          "released", "marking", "done"} \cup Reading]
    <3>1. PICK p \in {"finished", "write"} : pc' = [pc EXCEPT ![q] = p]
      BY <1>4 DEF Enter, Goto, Return
    <3>2. p \in {"finished", "entered", "write", "marking", "done"} \cup Reading
      BY <3>1 DEF Reading
    <3> QED BY <3>1, <3>2 DEF TypeOK
  <2>2. result' \in [Requests -> {"none", "ok", "torn", "broken", "cancelled", "expired"}]
    BY <1>4 DEF Enter, Return, Leave, TakeGate, TakeTerminator, TypeOK
  <2>3. ctx' \in [Requests -> {"live", "cancelled", "expired"}]
    BY <1>4 DEF Enter, Leave, TakeGate, TypeOK
  <2>4. gate' \in Requests \cup {Free} /\ outcome' \in [Requests -> 0..2]
    BY <1>4 DEF Enter, TakeGate, TypeOK
  <2>5. closing' \in BOOLEAN /\ broken' \in BOOLEAN /\ closed' \in BOOLEAN
    BY <1>4 DEF Enter, Spoil, Poison, TakeTerminator, MarkClosed, stops, TypeOK
  <2>6. sent' \in [Requests -> Seq(Whats)] /\ got' \in [Requests -> Seq(Tokens)]
    BY <1>4, EmptySeq DEF Enter, Leave, TakeGate, TypeOK
  <2>7. answer' \in Seq(Tokens) /\ stream' \in Seq(Tokens) /\ unread' \in Requests \cup {Free, Debris}
    BY <1>4 DEF Enter, wire, TypeOK
  <2> QED BY <2>1, <2>2, <2>3, <2>4, <2>5, <2>6, <2>7 DEF TypeOK
<1>5. ASSUME NEW q \in Requests, Write(q) PROVE TypeOK'
  <2>1. pc' \in [Requests -> {"idle", "wait", "entered", "write", "body", "finished", "published",
                          "released", "marking", "done"} \cup Reading]
    BY <1>5 DEF Write, Goto, Return, Leave, TakeGate, TypeOK, Reading
  <2>2. result' \in [Requests -> {"none", "ok", "torn", "broken", "cancelled", "expired"}]
    BY <1>5 DEF Write, Return, Leave, TakeGate, TakeTerminator, TypeOK
  <2>3. ctx' \in [Requests -> {"live", "cancelled", "expired"}]
    BY <1>5 DEF Write, Leave, TakeGate, TypeOK
  <2>4. gate' \in Requests \cup {Free} /\ outcome' \in [Requests -> 0..2]
    BY <1>5 DEF Write, TakeGate, TypeOK
  <2>5. closing' \in BOOLEAN /\ broken' \in BOOLEAN /\ closed' \in BOOLEAN
    BY <1>5 DEF Write, Spoil, Poison, TakeTerminator, MarkClosed, stops, TypeOK
  <2>6. sent' \in [Requests -> Seq(Whats)] /\ got' \in [Requests -> Seq(Tokens)]
    BY <1>5, AnswerStarts, DebrisAnswers DEF Write, TypeOK
  <2>7. answer' \in Seq(Tokens) /\ stream' \in Seq(Tokens) /\ unread' \in Requests \cup {Free, Debris}
    BY <1>5, AnswerStarts, DebrisAnswers DEF Write, TypeOK
  <2> QED BY <2>1, <2>2, <2>3, <2>4, <2>5, <2>6, <2>7 DEF TypeOK
<1>6. ASSUME NEW q \in Requests, WriteBody(q) PROVE TypeOK'
  <2>1. pc' \in [Requests -> {"idle", "wait", "entered", "write", "body", "finished", "published",
                          "released", "marking", "done"} \cup Reading]
    BY <1>6 DEF WriteBody, Goto, Return, Leave, TakeGate, TypeOK, Reading
  <2>2. result' \in [Requests -> {"none", "ok", "torn", "broken", "cancelled", "expired"}]
    BY <1>6 DEF WriteBody, Return, Leave, TakeGate, TakeTerminator, TypeOK
  <2>3. ctx' \in [Requests -> {"live", "cancelled", "expired"}]
    BY <1>6 DEF WriteBody, Leave, TakeGate, TypeOK
  <2>4. gate' \in Requests \cup {Free} /\ outcome' \in [Requests -> 0..2]
    BY <1>6 DEF WriteBody, TakeGate, TypeOK
  <2>5. closing' \in BOOLEAN /\ broken' \in BOOLEAN /\ closed' \in BOOLEAN
    BY <1>6 DEF WriteBody, Spoil, Poison, TakeTerminator, MarkClosed, stops, TypeOK
  <2>6. sent' \in [Requests -> Seq(Whats)] /\ got' \in [Requests -> Seq(Tokens)]
    BY <1>6, AnswerStarts, DebrisAnswers DEF WriteBody, TypeOK
  <2>7. answer' \in Seq(Tokens) /\ stream' \in Seq(Tokens) /\ unread' \in Requests \cup {Free, Debris}
    BY <1>6, AnswerStarts, DebrisAnswers DEF WriteBody, TypeOK
  <2> QED BY <2>1, <2>2, <2>3, <2>4, <2>5, <2>6, <2>7 DEF TypeOK
<1>7. ASSUME NEW q \in Requests, WriteError(q) PROVE TypeOK'
  <2>1. pc' \in [Requests -> {"idle", "wait", "entered", "write", "body", "finished", "published",
                          "released", "marking", "done"} \cup Reading]
    BY <1>7 DEF WriteError, Goto, Return, Leave, TakeGate, TypeOK, Reading
  <2>2. result' \in [Requests -> {"none", "ok", "torn", "broken", "cancelled", "expired"}]
    BY <1>7 DEF WriteError, Return, Leave, TakeGate, TakeTerminator, TypeOK
  <2>3. ctx' \in [Requests -> {"live", "cancelled", "expired"}]
    BY <1>7 DEF WriteError, Leave, TakeGate, TypeOK
  <2>4. gate' \in Requests \cup {Free} /\ outcome' \in [Requests -> 0..2]
    BY <1>7 DEF WriteError, TakeGate, TypeOK
  <2>5. closing' \in BOOLEAN /\ broken' \in BOOLEAN /\ closed' \in BOOLEAN
    BY <1>7 DEF WriteError, Spoil, Poison, TakeTerminator, MarkClosed, stops, TypeOK
  <2>6. sent' \in [Requests -> Seq(Whats)] /\ got' \in [Requests -> Seq(Tokens)]
    BY <1>7, EmptySeq DEF WriteError, Leave, TakeGate, TypeOK
  <2>7. answer' \in Seq(Tokens) /\ stream' \in Seq(Tokens) /\ unread' \in Requests \cup {Free, Debris}
    BY <1>7 DEF WriteError, wire, TypeOK
  <2> QED BY <2>1, <2>2, <2>3, <2>4, <2>5, <2>6, <2>7 DEF TypeOK
<1>8. ASSUME NEW q \in Requests, ReadOn(q) PROVE TypeOK'
  <2>1. pc' \in [Requests -> {"idle", "wait", "entered", "write", "body", "finished", "published",
                          "released", "marking", "done"} \cup Reading]
    <3>1. PICK p \in {"finished", "drain", "line"} : pc' = [pc EXCEPT ![q] = p]
      BY <1>8 DEF ReadOn, Goto, Return
    <3>2. p \in {"finished", "entered", "write", "marking", "done"} \cup Reading
      BY <3>1 DEF Reading
    <3> QED BY <3>1, <3>2 DEF TypeOK
  <2>2. result' \in [Requests -> {"none", "ok", "torn", "broken", "cancelled", "expired"}]
    BY <1>8 DEF ReadOn, Return, Leave, TakeGate, TakeTerminator, TypeOK
  <2>3. ctx' \in [Requests -> {"live", "cancelled", "expired"}]
    BY <1>8 DEF ReadOn, Leave, TakeGate, TypeOK
  <2>4. gate' \in Requests \cup {Free} /\ outcome' \in [Requests -> 0..2]
    BY <1>8 DEF ReadOn, TakeGate, TypeOK
  <2>5. closing' \in BOOLEAN /\ broken' \in BOOLEAN /\ closed' \in BOOLEAN
    BY <1>8 DEF ReadOn, Spoil, Poison, TakeTerminator, MarkClosed, stops, TypeOK
  <2>6. sent' \in [Requests -> Seq(Whats)] /\ got' \in [Requests -> Seq(Tokens)]
    BY <1>8, EmptySeq DEF ReadOn, Leave, TakeGate, TypeOK
  <2>7. answer' \in Seq(Tokens) /\ stream' \in Seq(Tokens) /\ unread' \in Requests \cup {Free, Debris}
    BY <1>8 DEF ReadOn, wire, TypeOK
  <2> QED BY <2>1, <2>2, <2>3, <2>4, <2>5, <2>6, <2>7 DEF TypeOK
<1>9. ASSUME NEW q \in Requests, TakeLine(q) PROVE TypeOK'
  <2>1. pc' \in [Requests -> {"idle", "wait", "entered", "write", "body", "finished", "published",
                          "released", "marking", "done"} \cup Reading]
    <3>1. PICK p \in {"finished", "drain", "frame", "read"} : pc' = [pc EXCEPT ![q] = p]
      BY <1>9 DEF TakeLine, Goto, Return, TakeTerminator
    <3>2. p \in {"idle", "wait", "entered", "write", "body", "finished", "marking", "done"} \cup Reading
      BY DEF Reading
    <3> QED BY <3>1, <3>2 DEF TypeOK
  <2>2. result' \in [Requests -> {"none", "ok", "torn", "broken", "cancelled", "expired"}]
    BY <1>9 DEF TakeLine, Return, Leave, TakeGate, TakeTerminator, TypeOK
  <2>3. ctx' \in [Requests -> {"live", "cancelled", "expired"}]
    BY <1>9 DEF TakeLine, Leave, TakeGate, TypeOK
  <2>4. gate' \in Requests \cup {Free} /\ outcome' \in [Requests -> 0..2]
    BY <1>9 DEF TakeLine, TakeGate, TypeOK
  <2>5. closing' \in BOOLEAN /\ broken' \in BOOLEAN /\ closed' \in BOOLEAN
    BY <1>9 DEF TakeLine, Spoil, Poison, TakeTerminator, MarkClosed, stops, TypeOK
  <2>6. sent' \in [Requests -> Seq(Whats)] /\ got' \in [Requests -> Seq(Tokens)]
    <3>1. sent' = sent /\ (got' = got \/ got' = [got EXCEPT ![q] = Append(@, Head(stream))])
      BY <1>9 DEF TakeLine
    <3>2. Head(stream) \in Tokens
      BY <1>9, LineTaken DEF TakeLine
    <3>3. Append(got[q], Head(stream)) \in Seq(Tokens)
      BY <3>2, AppendProperties DEF TypeOK
    <3>4. sent' \in [Requests -> Seq(Whats)]
      BY <3>1 DEF TypeOK
    <3>5. got' \in [Requests -> Seq(Tokens)]
      BY <3>1, <3>3 DEF TypeOK
    <3> QED BY <3>4, <3>5
  <2>7. answer' \in Seq(Tokens) /\ stream' \in Seq(Tokens) /\ unread' \in Requests \cup {Free, Debris}
    BY <1>9, LineTaken DEF TakeLine, TypeOK
  <2> QED BY <2>1, <2>2, <2>3, <2>4, <2>5, <2>6, <2>7 DEF TypeOK
<1>10. ASSUME NEW q \in Requests, Linger(q) PROVE TypeOK'
  <2>1. pc' \in [Requests -> {"idle", "wait", "entered", "write", "body", "finished", "published",
                          "released", "marking", "done"} \cup Reading]
    BY <1>10 DEF Linger, Goto, Return, Leave, TakeGate, TypeOK, Reading
  <2>2. result' \in [Requests -> {"none", "ok", "torn", "broken", "cancelled", "expired"}]
    BY <1>10 DEF Linger, Return, Leave, TakeGate, TakeTerminator, TypeOK
  <2>3. ctx' \in [Requests -> {"live", "cancelled", "expired"}]
    BY <1>10 DEF Linger, Leave, TakeGate, TypeOK
  <2>4. gate' \in Requests \cup {Free} /\ outcome' \in [Requests -> 0..2]
    BY <1>10 DEF Linger, TakeGate, TypeOK
  <2>5. closing' \in BOOLEAN /\ broken' \in BOOLEAN /\ closed' \in BOOLEAN
    BY <1>10 DEF Linger, Spoil, Poison, TakeTerminator, MarkClosed, stops, TypeOK
  <2>6. sent' \in [Requests -> Seq(Whats)] /\ got' \in [Requests -> Seq(Tokens)]
    BY <1>10, EmptySeq DEF Linger, Leave, TakeGate, TypeOK
  <2>7. answer' \in Seq(Tokens) /\ stream' \in Seq(Tokens) /\ unread' \in Requests \cup {Free, Debris}
    BY <1>10 DEF Linger, wire, TypeOK
  <2> QED BY <2>1, <2>2, <2>3, <2>4, <2>5, <2>6, <2>7 DEF TypeOK
<1>11. ASSUME NEW q \in Requests, TakeFrame(q) PROVE TypeOK'
  <2>1. pc' \in [Requests -> {"idle", "wait", "entered", "write", "body", "finished", "published",
                          "released", "marking", "done"} \cup Reading]
    BY <1>11 DEF TakeFrame, Goto, Return, Leave, TakeGate, TypeOK, Reading
  <2>2. result' \in [Requests -> {"none", "ok", "torn", "broken", "cancelled", "expired"}]
    BY <1>11 DEF TakeFrame, Return, Leave, TakeGate, TakeTerminator, TypeOK
  <2>3. ctx' \in [Requests -> {"live", "cancelled", "expired"}]
    BY <1>11 DEF TakeFrame, Leave, TakeGate, TypeOK
  <2>4. gate' \in Requests \cup {Free} /\ outcome' \in [Requests -> 0..2]
    BY <1>11 DEF TakeFrame, TakeGate, TypeOK
  <2>5. closing' \in BOOLEAN /\ broken' \in BOOLEAN /\ closed' \in BOOLEAN
    BY <1>11 DEF TakeFrame, Spoil, Poison, TakeTerminator, MarkClosed, stops, TypeOK
  <2>6. sent' \in [Requests -> Seq(Whats)] /\ got' \in [Requests -> Seq(Tokens)]
    BY <1>11, FrameTaken, AppendProperties DEF TakeFrame, TypeOK
  <2>7. answer' \in Seq(Tokens) /\ stream' \in Seq(Tokens) /\ unread' \in Requests \cup {Free, Debris}
    BY <1>11, FrameTaken DEF TakeFrame, TypeOK
  <2> QED BY <2>1, <2>2, <2>3, <2>4, <2>5, <2>6, <2>7 DEF TypeOK
<1>12. ASSUME NEW q \in Requests, ReadError(q) PROVE TypeOK'
  <2>1. pc' \in [Requests -> {"idle", "wait", "entered", "write", "body", "finished", "published",
                          "released", "marking", "done"} \cup Reading]
    BY <1>12 DEF ReadError, Goto, Return, Leave, TakeGate, TypeOK, Reading
  <2>2. result' \in [Requests -> {"none", "ok", "torn", "broken", "cancelled", "expired"}]
    BY <1>12 DEF ReadError, Return, Leave, TakeGate, TakeTerminator, TypeOK
  <2>3. ctx' \in [Requests -> {"live", "cancelled", "expired"}]
    BY <1>12 DEF ReadError, Leave, TakeGate, TypeOK
  <2>4. gate' \in Requests \cup {Free} /\ outcome' \in [Requests -> 0..2]
    BY <1>12 DEF ReadError, TakeGate, TypeOK
  <2>5. closing' \in BOOLEAN /\ broken' \in BOOLEAN /\ closed' \in BOOLEAN
    BY <1>12 DEF ReadError, Spoil, Poison, TakeTerminator, MarkClosed, stops, TypeOK
  <2>6. sent' \in [Requests -> Seq(Whats)] /\ got' \in [Requests -> Seq(Tokens)]
    BY <1>12, EmptySeq DEF ReadError, Leave, TakeGate, TypeOK
  <2>7. answer' \in Seq(Tokens) /\ stream' \in Seq(Tokens) /\ unread' \in Requests \cup {Free, Debris}
    BY <1>12 DEF ReadError, wire, TypeOK
  <2> QED BY <2>1, <2>2, <2>3, <2>4, <2>5, <2>6, <2>7 DEF TypeOK
<1>13. ASSUME NEW q \in Requests, ReadTimeout(q) PROVE TypeOK'
  <2>1. pc' \in [Requests -> {"idle", "wait", "entered", "write", "body", "finished", "published",
                          "released", "marking", "done"} \cup Reading]
    BY <1>13 DEF ReadTimeout, Goto, Return, Leave, TakeGate, TypeOK, Reading
  <2>2. result' \in [Requests -> {"none", "ok", "torn", "broken", "cancelled", "expired"}]
    BY <1>13 DEF ReadTimeout, Return, Leave, TakeGate, TakeTerminator, TypeOK
  <2>3. ctx' \in [Requests -> {"live", "cancelled", "expired"}]
    BY <1>13 DEF ReadTimeout, Leave, TakeGate, TypeOK
  <2>4. gate' \in Requests \cup {Free} /\ outcome' \in [Requests -> 0..2]
    BY <1>13 DEF ReadTimeout, TakeGate, TypeOK
  <2>5. closing' \in BOOLEAN /\ broken' \in BOOLEAN /\ closed' \in BOOLEAN
    BY <1>13 DEF ReadTimeout, Spoil, Poison, TakeTerminator, MarkClosed, stops, TypeOK
  <2>6. sent' \in [Requests -> Seq(Whats)] /\ got' \in [Requests -> Seq(Tokens)]
    BY <1>13, EmptySeq DEF ReadTimeout, Leave, TakeGate, TypeOK
  <2>7. answer' \in Seq(Tokens) /\ stream' \in Seq(Tokens) /\ unread' \in Requests \cup {Free, Debris}
    BY <1>13 DEF ReadTimeout, wire, TypeOK
  <2> QED BY <2>1, <2>2, <2>3, <2>4, <2>5, <2>6, <2>7 DEF TypeOK
<1>14. ASSUME NEW q \in Requests, Drain(q) PROVE TypeOK'
  <2>1. pc' \in [Requests -> {"idle", "wait", "entered", "write", "body", "finished", "published",
                          "released", "marking", "done"} \cup Reading]
    <3>1. PICK p \in {"finished", "drain", "drainframe"} : pc' = [pc EXCEPT ![q] = p]
      BY <1>14 DEF Drain, Goto, Return
    <3>2. p \in {"finished", "entered", "write", "marking", "done"} \cup Reading
      BY <3>1 DEF Reading
    <3> QED BY <3>1, <3>2 DEF TypeOK
  <2>0. ctx[q] \in {"cancelled", "expired"}
    BY <1>14 DEF Drain, Gated, TypeOK
  <2>2. result' \in [Requests -> {"none", "ok", "torn", "broken", "cancelled", "expired"}]
    BY <2>0, <1>14 DEF Drain, Return, Leave, TakeGate, TakeTerminator, TypeOK
  <2>3. ctx' \in [Requests -> {"live", "cancelled", "expired"}]
    BY <1>14 DEF Drain, Leave, TakeGate, TypeOK
  <2>4. gate' \in Requests \cup {Free} /\ outcome' \in [Requests -> 0..2]
    BY <1>14 DEF Drain, TakeGate, TypeOK
  <2>5. closing' \in BOOLEAN /\ broken' \in BOOLEAN /\ closed' \in BOOLEAN
    BY <1>14 DEF Drain, Spoil, Poison, TakeTerminator, MarkClosed, stops, TypeOK
  <2>6. sent' \in [Requests -> Seq(Whats)] /\ got' \in [Requests -> Seq(Tokens)]
    BY <1>14, EmptySeq DEF Drain, Leave, TakeGate, TypeOK
  <2>7. answer' \in Seq(Tokens) /\ stream' \in Seq(Tokens) /\ unread' \in Requests \cup {Free, Debris}
    BY <1>14, LineTaken DEF Drain, TypeOK
  <2> QED BY <2>1, <2>2, <2>3, <2>4, <2>5, <2>6, <2>7 DEF TypeOK
<1>15. ASSUME NEW q \in Requests, DrainFrame(q) PROVE TypeOK'
  <2>1. pc' \in [Requests -> {"idle", "wait", "entered", "write", "body", "finished", "published",
                          "released", "marking", "done"} \cup Reading]
    BY <1>15 DEF DrainFrame, Goto, Return, Leave, TakeGate, TypeOK, Reading
  <2>2. result' \in [Requests -> {"none", "ok", "torn", "broken", "cancelled", "expired"}]
    BY <1>15 DEF DrainFrame, Return, Leave, TakeGate, TakeTerminator, TypeOK
  <2>3. ctx' \in [Requests -> {"live", "cancelled", "expired"}]
    BY <1>15 DEF DrainFrame, Leave, TakeGate, TypeOK
  <2>4. gate' \in Requests \cup {Free} /\ outcome' \in [Requests -> 0..2]
    BY <1>15 DEF DrainFrame, TakeGate, TypeOK
  <2>5. closing' \in BOOLEAN /\ broken' \in BOOLEAN /\ closed' \in BOOLEAN
    BY <1>15 DEF DrainFrame, Spoil, Poison, TakeTerminator, MarkClosed, stops, TypeOK
  <2>6. sent' \in [Requests -> Seq(Whats)] /\ got' \in [Requests -> Seq(Tokens)]
    BY <1>15, EmptySeq DEF DrainFrame, Leave, TakeGate, TypeOK
  <2>7. answer' \in Seq(Tokens) /\ stream' \in Seq(Tokens) /\ unread' \in Requests \cup {Free, Debris}
    BY <1>15, FrameTaken DEF DrainFrame, TypeOK
  <2> QED BY <2>1, <2>2, <2>3, <2>4, <2>5, <2>6, <2>7 DEF TypeOK
<1>16. ASSUME NEW q \in Requests, DrainError(q) PROVE TypeOK'
  <2>1. pc' \in [Requests -> {"idle", "wait", "entered", "write", "body", "finished", "published",
                          "released", "marking", "done"} \cup Reading]
    BY <1>16 DEF DrainError, Goto, Return, Leave, TakeGate, TypeOK, Reading
  <2>0. ctx[q] \in {"cancelled", "expired"}
    BY <1>16 DEF DrainError, Gated, TypeOK
  <2>2. result' \in [Requests -> {"none", "ok", "torn", "broken", "cancelled", "expired"}]
    BY <2>0, <1>16 DEF DrainError, Return, Leave, TakeGate, TakeTerminator, TypeOK
  <2>3. ctx' \in [Requests -> {"live", "cancelled", "expired"}]
    BY <1>16 DEF DrainError, Leave, TakeGate, TypeOK
  <2>4. gate' \in Requests \cup {Free} /\ outcome' \in [Requests -> 0..2]
    BY <1>16 DEF DrainError, TakeGate, TypeOK
  <2>5. closing' \in BOOLEAN /\ broken' \in BOOLEAN /\ closed' \in BOOLEAN
    BY <1>16 DEF DrainError, Spoil, Poison, TakeTerminator, MarkClosed, stops, TypeOK
  <2>6. sent' \in [Requests -> Seq(Whats)] /\ got' \in [Requests -> Seq(Tokens)]
    BY <1>16, EmptySeq DEF DrainError, Leave, TakeGate, TypeOK
  <2>7. answer' \in Seq(Tokens) /\ stream' \in Seq(Tokens) /\ unread' \in Requests \cup {Free, Debris}
    BY <1>16 DEF DrainError, wire, TypeOK
  <2> QED BY <2>1, <2>2, <2>3, <2>4, <2>5, <2>6, <2>7 DEF TypeOK
<1>17. ASSUME NEW q \in Requests, DrainTimeout(q) PROVE TypeOK'
  <2>1. pc' \in [Requests -> {"idle", "wait", "entered", "write", "body", "finished", "published",
                          "released", "marking", "done"} \cup Reading]
    BY <1>17 DEF DrainTimeout, Goto, Return, Leave, TakeGate, TypeOK, Reading
  <2>0. ctx[q] \in {"cancelled", "expired"}
    BY <1>17 DEF DrainTimeout, Gated, TypeOK
  <2>2. result' \in [Requests -> {"none", "ok", "torn", "broken", "cancelled", "expired"}]
    BY <2>0, <1>17 DEF DrainTimeout, Return, Leave, TakeGate, TakeTerminator, TypeOK
  <2>3. ctx' \in [Requests -> {"live", "cancelled", "expired"}]
    BY <1>17 DEF DrainTimeout, Leave, TakeGate, TypeOK
  <2>4. gate' \in Requests \cup {Free} /\ outcome' \in [Requests -> 0..2]
    BY <1>17 DEF DrainTimeout, TakeGate, TypeOK
  <2>5. closing' \in BOOLEAN /\ broken' \in BOOLEAN /\ closed' \in BOOLEAN
    BY <1>17 DEF DrainTimeout, Spoil, Poison, TakeTerminator, MarkClosed, stops, TypeOK
  <2>6. sent' \in [Requests -> Seq(Whats)] /\ got' \in [Requests -> Seq(Tokens)]
    BY <1>17, EmptySeq DEF DrainTimeout, Leave, TakeGate, TypeOK
  <2>7. answer' \in Seq(Tokens) /\ stream' \in Seq(Tokens) /\ unread' \in Requests \cup {Free, Debris}
    BY <1>17 DEF DrainTimeout, wire, TypeOK
  <2> QED BY <2>1, <2>2, <2>3, <2>4, <2>5, <2>6, <2>7 DEF TypeOK
<1>18. ASSUME NEW q \in Requests, Release(q) PROVE TypeOK'
  <2>1. pc' \in [Requests -> {"idle", "wait", "entered", "write", "body", "finished", "published",
                          "released", "marking", "done"} \cup Reading]
    BY <1>18 DEF Release, Goto, Return, Leave, TakeGate, TypeOK, Reading
  <2>2. result' \in [Requests -> {"none", "ok", "torn", "broken", "cancelled", "expired"}]
    BY <1>18 DEF Release, Return, Leave, TakeGate, TakeTerminator, TypeOK
  <2>3. ctx' \in [Requests -> {"live", "cancelled", "expired"}]
    BY <1>18 DEF Release, Leave, TakeGate, TypeOK
  <2>4. gate' \in Requests \cup {Free} /\ outcome' \in [Requests -> 0..2]
    BY <1>18 DEF Release, TakeGate, TypeOK
  <2>5. closing' \in BOOLEAN /\ broken' \in BOOLEAN /\ closed' \in BOOLEAN
    BY <1>18 DEF Release, Spoil, Poison, TakeTerminator, MarkClosed, stops, TypeOK
  <2>6. sent' \in [Requests -> Seq(Whats)] /\ got' \in [Requests -> Seq(Tokens)]
    <3>1. /\ sent' = [sent EXCEPT ![q] = <<>>] /\ got' = [got EXCEPT ![q] = <<>>]
      BY <1>18 DEF Release, Leave
    <3>2. <<>> \in Seq(Whats) /\ <<>> \in Seq(Tokens)
      BY EmptySeq
    <3> QED BY <3>1, <3>2 DEF TypeOK
  <2>7. answer' \in Seq(Tokens) /\ stream' \in Seq(Tokens) /\ unread' \in Requests \cup {Free, Debris}
    BY <1>18 DEF Release, wire, TypeOK
  <2> QED BY <2>1, <2>2, <2>3, <2>4, <2>5, <2>6, <2>7 DEF TypeOK
<1>19. ASSUME NEW q \in Requests, MarkBroken(q) PROVE TypeOK'
  <2>1. pc' \in [Requests -> {"idle", "wait", "entered", "write", "body", "finished", "published",
                          "released", "marking", "done"} \cup Reading]
    BY <1>19 DEF MarkBroken, Goto, Return, Leave, TakeGate, TypeOK, Reading
  <2>2. result' \in [Requests -> {"none", "ok", "torn", "broken", "cancelled", "expired"}]
    BY <1>19 DEF MarkBroken, Return, Leave, TakeGate, TakeTerminator, TypeOK
  <2>3. ctx' \in [Requests -> {"live", "cancelled", "expired"}]
    BY <1>19 DEF MarkBroken, Leave, TakeGate, TypeOK
  <2>4. gate' \in Requests \cup {Free} /\ outcome' \in [Requests -> 0..2]
    BY <1>19 DEF MarkBroken, TakeGate, TypeOK
  <2>5. closing' \in BOOLEAN /\ broken' \in BOOLEAN /\ closed' \in BOOLEAN
    BY <1>19 DEF MarkBroken, Spoil, Poison, TakeTerminator, MarkClosed, stops, TypeOK
  <2>6. sent' \in [Requests -> Seq(Whats)] /\ got' \in [Requests -> Seq(Tokens)]
    BY <1>19, EmptySeq DEF MarkBroken, Leave, TakeGate, TypeOK
  <2>7. answer' \in Seq(Tokens) /\ stream' \in Seq(Tokens) /\ unread' \in Requests \cup {Free, Debris}
    BY <1>19 DEF MarkBroken, wire, TypeOK
  <2> QED BY <2>1, <2>2, <2>3, <2>4, <2>5, <2>6, <2>7 DEF TypeOK
<1>20. ASSUME NEW q \in Requests, Interrupt(q) PROVE TypeOK'
  <2>1. pc' \in [Requests -> {"idle", "wait", "entered", "write", "body", "finished", "published",
                          "released", "marking", "done"} \cup Reading]
    BY <1>20 DEF Interrupt, Goto, Return, Leave, TakeGate, TypeOK, Reading
  <2>2. result' \in [Requests -> {"none", "ok", "torn", "broken", "cancelled", "expired"}]
    BY <1>20 DEF Interrupt, Return, Leave, TakeGate, TakeTerminator, TypeOK
  <2>3. ctx' \in [Requests -> {"live", "cancelled", "expired"}]
    BY <1>20 DEF Interrupt, Leave, TakeGate, TypeOK
  <2>4. gate' \in Requests \cup {Free} /\ outcome' \in [Requests -> 0..2]
    BY <1>20 DEF Interrupt, TakeGate, TypeOK
  <2>5. closing' \in BOOLEAN /\ broken' \in BOOLEAN /\ closed' \in BOOLEAN
    BY <1>20 DEF Interrupt, Spoil, Poison, TakeTerminator, MarkClosed, stops, TypeOK
  <2>6. sent' \in [Requests -> Seq(Whats)] /\ got' \in [Requests -> Seq(Tokens)]
    BY <1>20, EmptySeq DEF Interrupt, Leave, TakeGate, TypeOK
  <2>7. answer' \in Seq(Tokens) /\ stream' \in Seq(Tokens) /\ unread' \in Requests \cup {Free, Debris}
    BY <1>20 DEF Interrupt, wire, TypeOK
  <2> QED BY <2>1, <2>2, <2>3, <2>4, <2>5, <2>6, <2>7 DEF TypeOK
<1>21. ASSUME NEW q \in Requests, EndContext(q) PROVE TypeOK'
  <2>1. pc' \in [Requests -> {"idle", "wait", "entered", "write", "body", "finished", "published",
                          "released", "marking", "done"} \cup Reading]
    BY <1>21 DEF EndContext, Goto, Return, Leave, TakeGate, TypeOK, Reading
  <2>2. result' \in [Requests -> {"none", "ok", "torn", "broken", "cancelled", "expired"}]
    BY <1>21 DEF EndContext, Return, Leave, TakeGate, TakeTerminator, TypeOK
  <2>3. ctx' \in [Requests -> {"live", "cancelled", "expired"}]
    BY <1>21 DEF EndContext, Leave, TakeGate, TypeOK
  <2>4. gate' \in Requests \cup {Free} /\ outcome' \in [Requests -> 0..2]
    BY <1>21 DEF EndContext, TakeGate, TypeOK
  <2>5. closing' \in BOOLEAN /\ broken' \in BOOLEAN /\ closed' \in BOOLEAN
    BY <1>21 DEF EndContext, Spoil, Poison, TakeTerminator, MarkClosed, stops, TypeOK
  <2>6. sent' \in [Requests -> Seq(Whats)] /\ got' \in [Requests -> Seq(Tokens)]
    BY <1>21, EmptySeq DEF EndContext, Leave, TakeGate, TypeOK
  <2>7. answer' \in Seq(Tokens) /\ stream' \in Seq(Tokens) /\ unread' \in Requests \cup {Free, Debris}
    BY <1>21 DEF EndContext, wire, TypeOK
  <2> QED BY <2>1, <2>2, <2>3, <2>4, <2>5, <2>6, <2>7 DEF TypeOK
<1>22. CASE RemoteSends
  <2>1. answer \in Seq(Tokens) /\ answer # <<>> /\ stream \in Seq(Tokens)
    BY <1>22 DEF RemoteSends, TypeOK
  <2>2. Head(answer) \in Tokens /\ Tail(answer) \in Seq(Tokens)
    BY <2>1, Heads
  <2>3. Append(stream, Head(answer)) \in Seq(Tokens)
    BY <2>1, <2>2, AppendProperties
  <2> QED BY <1>22, <2>2, <2>3 DEF RemoteSends, TypeOK, stops
<1>23. CASE Close
  BY <1>23 DEF Close, MarkClosed, TypeOK, wire
<1>24. CASE CloseTransport
  BY <1>24 DEF CloseTransport, TypeOK, wire
<1>25. CASE UNCHANGED vars
  BY <1>25 DEF vars, stops, wire, TypeOK
<1>26. ASSUME NEW q \in Requests, Publish(q) PROVE TypeOK'
  <2>1. pc' \in [Requests -> {"idle", "wait", "entered", "write", "body", "finished", "published",
                          "released", "marking", "done"} \cup Reading]
    BY <1>26 DEF Publish, Goto, Return, Leave, TakeGate, TypeOK, Reading
  <2>2. result' \in [Requests -> {"none", "ok", "torn", "broken", "cancelled", "expired"}]
    BY <1>26 DEF Publish, Return, Leave, TakeGate, TakeTerminator, TypeOK
  <2>3. ctx' \in [Requests -> {"live", "cancelled", "expired"}]
    BY <1>26 DEF Publish, Leave, TakeGate, TypeOK
  <2>4. gate' \in Requests \cup {Free} /\ outcome' \in [Requests -> 0..2]
    BY <1>26 DEF Publish, TakeGate, TypeOK
  <2>5. closing' \in BOOLEAN /\ broken' \in BOOLEAN /\ closed' \in BOOLEAN
    BY <1>26 DEF Publish, Spoil, Poison, TakeTerminator, MarkClosed, stops, TypeOK
  <2>6. sent' \in [Requests -> Seq(Whats)] /\ got' \in [Requests -> Seq(Tokens)]
    BY <1>26, EmptySeq DEF Publish, Leave, TakeGate, TypeOK
  <2>7. answer' \in Seq(Tokens) /\ stream' \in Seq(Tokens) /\ unread' \in Requests \cup {Free, Debris}
    BY <1>26 DEF Publish, wire, TypeOK
  <2> QED BY <2>1, <2>2, <2>3, <2>4, <2>5, <2>6, <2>7 DEF TypeOK
<1>27. ASSUME NEW q \in Requests, NoopReturns(q) PROVE TypeOK'
  <2>1. pc' \in [Requests -> {"idle", "wait", "entered", "write", "body", "finished", "published",
                          "released", "marking", "done"} \cup Reading]
    BY <1>27 DEF NoopReturns, Goto, Return, Leave, TakeGate, TypeOK, Reading
  <2>2. result' \in [Requests -> {"none", "ok", "torn", "broken", "cancelled", "expired"}]
    BY <1>27 DEF NoopReturns, Return, Leave, TakeGate, TakeTerminator, TypeOK
  <2>3. ctx' \in [Requests -> {"live", "cancelled", "expired"}]
    BY <1>27 DEF NoopReturns, Leave, TakeGate, TypeOK
  <2>4. gate' \in Requests \cup {Free} /\ outcome' \in [Requests -> 0..2]
    BY <1>27 DEF NoopReturns, TakeGate, TypeOK
  <2>5. closing' \in BOOLEAN /\ broken' \in BOOLEAN /\ closed' \in BOOLEAN
    BY <1>27 DEF NoopReturns, Spoil, Poison, TakeTerminator, MarkClosed, stops, TypeOK
  <2>6. sent' \in [Requests -> Seq(Whats)] /\ got' \in [Requests -> Seq(Tokens)]
    BY <1>27, EmptySeq DEF NoopReturns, Leave, TakeGate, TypeOK
  <2>7. answer' \in Seq(Tokens) /\ stream' \in Seq(Tokens) /\ unread' \in Requests \cup {Free, Debris}
    BY <1>27 DEF NoopReturns, wire, TypeOK
  <2> QED BY <2>1, <2>2, <2>3, <2>4, <2>5, <2>6, <2>7 DEF TypeOK
<1> QED
  BY <1>1, <1>2, <1>3, <1>4, <1>5, <1>6, <1>7, <1>8, <1>9, <1>10, <1>11, <1>12,
     <1>13, <1>14, <1>15, <1>16, <1>17, <1>18, <1>19, <1>20, <1>21, <1>22, <1>23, <1>24,
     <1>25, <1>26, <1>27 DEF Next, Step

(***************************************************************************)
(* The steps, by what they do to the gate and to the wire                  *)
(***************************************************************************)
\* A request that has not got the gate, or has given it back, goes on.
Outside(q) ==
  /\ pc[q] \notin Inside
  /\ \E p \in {"wait", "marking", "done"} : Goto(q, p)
  /\ \A r \in Requests \ {q} : ctx'[r] = ctx[r]
  /\ UNCHANGED <<gate, wire, sent, got>> /\ (broken => broken')
  /\ \/ pc[q] # "released" /\ UNCHANGED result
     \/ pc[q] = "released" /\ result' = [result EXCEPT ![q] = "none"]

Entering(q) ==
  /\ gate = Free /\ gate' = q /\ pc[q] = "wait" /\ Goto(q, "entered")
  /\ UNCHANGED <<broken, wire, sent, got, result, ctx>>

\* The holder of the gate goes on without the wire.
Moving(q) ==
  /\ UNCHANGED <<gate, wire, sent, got, ctx>> /\ (broken => broken')
  /\ \/ /\ \/ pc[q] = "entered" /\ ~ broken /\ Goto(q, "write")
           \/ pc[q] = "finished" /\ Goto(q, "published") /\ outcome'[q] # 0
           \/ pc[q] = "read" /\ Goto(q, "line")
           \/ pc[q] = "read" /\ ctx[q] # "live" /\ Goto(q, "drain")
           \/ pc[q] = "line" /\ ctx[q] # "live" /\ Goto(q, "linger")
        /\ UNCHANGED result
     \/ /\ pc[q] \in Inside \ Ended /\ (pc[q] # "entered" => broken')
        /\ \E how \in {"torn", "broken", "cancelled", "expired"} : Return(q, how)

Leaving(q) ==
  /\ pc[q] \in Ended /\ gate' = Free
  /\ \/ pc[q] = "published" /\ Goto(q, "released") /\ UNCHANGED result
     \/ /\ \E p \in {"marking", "done"} : Goto(q, p)
        /\ result' = [result EXCEPT ![q] = "none"]
  /\ sent' = [sent EXCEPT ![q] = <<>>] /\ got' = [got EXCEPT ![q] = <<>>]
  /\ \A r \in Requests \ {q} : ctx'[r] = ctx[r]
  /\ UNCHANGED <<broken, wire>>

Aside ==
  /\ UNCHANGED <<gate, wire, pc, result, sent, got>> /\ (broken => broken')
  /\ \A r \in Requests : ctx[r] # "live" => ctx'[r] # "live"

LEMMA LeavesNothing ==
  ASSUME TypeOK, Gated, Sent, NEW q \in Requests, pc[q] = "wait", NEW failed \in BOOLEAN, Leave(q, failed)
  PROVE  /\ UNCHANGED <<sent, got, result>> /\ \A r \in Requests \ {q} : ctx'[r] = ctx[r]
         /\ \E p \in {"marking", "done"} : Goto(q, p)
<1>1. sent[q] = <<>> /\ got[q] = <<>> /\ result[q] = "none"
  BY DEF Gated, Sent, Reading, Ended
<1>2. sent' = sent
  BY <1>1 DEF Leave, TypeOK
<1>3. got' = got
  BY <1>1 DEF Leave, TypeOK
<1>4. result' = result
  BY <1>1 DEF Leave, TypeOK
<1>5. \E p \in {"marking", "done"} : Goto(q, p)
  BY DEF Leave
<1>6. \A r \in Requests \ {q} : ctx'[r] = ctx[r]
  BY DEF Leave, TypeOK
<1> QED BY <1>2, <1>3, <1>4, <1>5, <1>6

LEMMA StepKinds ==
  ASSUME TypeOK, Gated, Sent, [Next]_vars
  PROVE  \/ Aside \/ RemoteSends
         \/ \E q \in Requests : \/ Outside(q) \/ Entering(q) \/ Moving(q) \/ Leaving(q) \/ Write(q) \/ WriteBody(q)
                                \/ TakeLine(q) \/ TakeFrame(q) \/ Drain(q) \/ DrainFrame(q)
<1>1. ASSUME NEW q \in Requests, Ask(q) PROVE Outside(q)
  BY <1>1 DEF Ask, Outside, Inside, Ended, Reading, stops
<1>2. ASSUME NEW q \in Requests, Acquire(q) PROVE Outside(q) \/ Entering(q)
  <2>1. CASE TakeGate(q)
    BY <1>2, <2>1 DEF Acquire, TakeGate, Entering, Inside, Ended, Reading, stops
  <2>2. CASE Leave(q, TRUE) /\ UNCHANGED gate
    BY <1>2, <2>2, LeavesNothing DEF Acquire, Outside, Inside, Ended, Reading, stops
  <2> QED BY <1>2, <2>1, <2>2 DEF Acquire
<1>3. ASSUME NEW q \in Requests, TryNoop(q) PROVE Outside(q) \/ Entering(q)
  <2>1. CASE TakeGate(q)
    BY <1>3, <2>1 DEF TryNoop, TakeGate, Entering, Inside, Ended, Reading, stops
  <2>2. ASSUME NEW failed \in BOOLEAN, Leave(q, failed) /\ UNCHANGED gate PROVE Outside(q)
    <3>1. /\ UNCHANGED <<sent, got, result>> /\ \A r \in Requests \ {q} : ctx'[r] = ctx[r]
          /\ \E p \in {"marking", "done"} : Goto(q, p)
      BY <1>3, <2>2, LeavesNothing DEF TryNoop
    <3> QED BY <1>3, <2>2, <3>1 DEF TryNoop, Outside, Inside, Ended, Reading, stops
  <2> QED BY <1>3, <2>1, <2>2 DEF TryNoop
<1>4. ASSUME NEW q \in Requests, Enter(q) PROVE Moving(q)
  <2>1. UNCHANGED <<gate, wire, sent, got, ctx, broken>> /\ pc[q] = "entered" /\ ctx[q] \in {"live", "cancelled", "expired"}
    BY <1>4 DEF Enter, stops, TypeOK
  <2>2. CASE \E how \in {"torn", "broken", "cancelled", "expired"} : Return(q, how)
    BY <2>1, <2>2 DEF Moving, Inside, Ended
  <2>3. CASE Goto(q, "write") /\ UNCHANGED result /\ ~ Unusable
    BY <2>1, <2>3 DEF Moving, Unusable
  <2> QED BY <1>4, <2>1, <2>2, <2>3 DEF Enter
<1>5. ASSUME NEW q \in Requests, WriteError(q) \/ ReadError(q) PROVE Moving(q)
  <2>1. /\ UNCHANGED <<gate, wire, sent, got, ctx>> /\ broken' /\ pc[q] \in Inside \ (Ended \cup {"entered"})
        /\ Return(q, "broken")
    BY <1>5 DEF WriteError, ReadError, Spoil, Poison, Inside, Ended, Reading
  <2> QED BY <2>1 DEF Moving
<1>6. ASSUME NEW q \in Requests, ReadOn(q) PROVE Moving(q)
  <2>1. UNCHANGED <<gate, wire, sent, got, ctx>> /\ pc[q] = "read"
    BY <1>6 DEF ReadOn
  <2>2. CASE ctx[q] # "live"
    BY <1>6, <2>1, <2>2 DEF ReadOn, Moving, Reading, stops
  <2>3. CASE ctx[q] = "live" /\ Unusable
    BY <1>6, <2>1, <2>3 DEF ReadOn, Moving, Reading, Inside, Spoil, Ended
  <2>4. CASE ctx[q] = "live" /\ ~ Unusable
    BY <1>6, <2>1, <2>4 DEF ReadOn, Moving, Reading, stops
  <2> QED BY <2>2, <2>3, <2>4
<1>7. ASSUME NEW q \in Requests, Linger(q) PROVE Moving(q)
  BY <1>7 DEF Linger, Moving, Reading, stops
<1>8. ASSUME NEW q \in Requests, ReadTimeout(q) \/ DrainError(q) \/ DrainTimeout(q) PROVE Moving(q)
  <2>1. /\ UNCHANGED <<gate, wire, sent, got, ctx>> /\ broken' /\ pc[q] \in Inside \ (Ended \cup {"entered"})
    BY <1>8 DEF ReadTimeout, DrainError, DrainTimeout, Spoil, Poison, Inside, Ended, Reading
  <2>2. pc[q] \in {"drain", "drainframe"} => ctx[q] \in {"cancelled", "expired"}
    BY DEF Gated, TypeOK
  <2>3. \E how \in {"broken", "cancelled", "expired"} : Return(q, how)
    BY <1>8, <2>2 DEF ReadTimeout, DrainError, DrainTimeout
  <2> QED BY <2>1, <2>3 DEF Moving
<1>9. ASSUME NEW q \in Requests, Release(q) PROVE Leaving(q)
  BY <1>9 DEF Release, Leave, Leaving, Goto, Ended, stops, TypeOK
<1>13. ASSUME NEW q \in Requests, Publish(q) PROVE Moving(q)
  <2>1. outcome'[q] # 0
    BY <1>13 DEF Publish, TypeOK
  <2> QED BY <1>13, <2>1 DEF Publish, Moving, stops
<1>14. ASSUME NEW q \in Requests, NoopReturns(q) PROVE Outside(q)
  <2>1. sent[q] = <<>> /\ got[q] = <<>> /\ pc[q] = "released"
    BY <1>14 DEF NoopReturns, Sent, Ended, Reading
  <2>2. sent' = sent /\ got' = got
    BY <1>14, <2>1 DEF NoopReturns, Leave, TypeOK
  <2> QED BY <1>14, <2>1, <2>2 DEF NoopReturns, Leave, Outside, Inside, Ended, Reading, stops, TypeOK
<1>10. ASSUME NEW q \in Requests, MarkBroken(q) PROVE Outside(q)
  BY <1>10 DEF MarkBroken, Outside, Inside, Ended, Reading, Spoil, stops
<1>11. ASSUME NEW q \in Requests, Interrupt(q) \/ EndContext(q) PROVE Aside
  BY <1>11 DEF Interrupt, EndContext, Aside, MarkClosed, stops, TypeOK
<1>12. ASSUME Close \/ CloseTransport \/ UNCHANGED vars PROVE Aside
  BY <1>12 DEF Close, CloseTransport, vars, Aside, MarkClosed, stops
<1> QED
  BY <1>1, <1>2, <1>3, <1>4, <1>5, <1>6, <1>7, <1>8, <1>9, <1>10, <1>11, <1>12, <1>13, <1>14 DEF Next, Step

(***************************************************************************)
(* What is left of an answer                                               *)
(***************************************************************************)
LEMMA WholeIs ==
  ASSUME TypeOK, Sent, NEW q \in Requests
  PROVE  /\ Len(Whole(q)) \in Nat \ {0}
         /\ \A i \in 1..Len(Whole(q)) :
              Whole(q)[i].of = q /\ Whole(q)[i].what \in Terminators => i = Len(Whole(q))
         /\ sent[q] # <<>> =>
              /\ Len(Whole(q)) = Len(sent[q]) /\ WellFormed(Kind[q], sent[q]) /\ DOMAIN sent[q] = 1..Len(sent[q])
              /\ \A i \in 1..Len(sent[q]) : Whole(q)[i] = [of |-> q, what |-> sent[q][i]]
<1>1. CASE sent[q] # <<>>
  <2>1. sent[q] \in Answers[Kind[q]]
    BY <1>1 DEF Sent
  <2>2. /\ WellFormed(Kind[q], sent[q]) /\ Len(sent[q]) \in Nat \ {0} /\ DOMAIN sent[q] = 1..Len(sent[q])
    BY <2>1, AnswersAreTokens
  <2>3. Whole(q) = [i \in 1..Len(sent[q]) |-> [of |-> q, what |-> sent[q][i]]]
    BY <1>1 DEF Whole
  <2>4. /\ Len(Whole(q)) = Len(sent[q])
        /\ \A i \in 1..Len(sent[q]) : Whole(q)[i] = [of |-> q, what |-> sent[q][i]]
    BY <2>2, <2>3
  <2>5. \A i \in 1..Len(sent[q]) : sent[q][i] \in Terminators => i = Len(sent[q])
    BY <2>2 DEF WellFormed
  <2>6. \A i \in 1..Len(Whole(q)) :
          Whole(q)[i].of = q /\ Whole(q)[i].what \in Terminators => i = Len(Whole(q))
    <3> TAKE i \in 1..Len(Whole(q))
    <3>0. i \in 1..Len(sent[q])
      BY <2>4
    <3>1. Whole(q)[i] = [of |-> q, what |-> sent[q][i]]
      BY <2>4, <3>0
    <3> QED BY <2>4, <2>5, <3>0, <3>1
  <2>7. Len(Whole(q)) \in Nat \ {0}
    BY <2>2, <2>4
  <2> QED BY <1>1, <2>2, <2>4, <2>6, <2>7
<1>2. CASE sent[q] = <<>>
  <2>1. Whole(q) = <<[of |-> Debris, what |-> "line"], [of |-> q, what |-> "term"]>>
    BY <1>2 DEF Whole
  <2>2. Len(Whole(q)) = 2 /\ Whole(q)[1].of = Debris /\ Debris # q
    BY <2>1, SessionAssumption
  <2> QED BY <1>2, <2>2
<1> QED BY <1>1, <1>2

LEMMA LeftIs ==
  ASSUME TypeOK, Sent, NEW q \in Requests, Remains(Whole(q)), stream # <<>>
  PROVE  /\ Left \in Nat /\ Len(stream) \in Nat \ {0} /\ Len(answer) \in Nat /\ Left <= Len(Whole(q))
         /\ Head(stream) = Whole(q)[Len(Whole(q)) - Left + 1]
         /\ Len(Whole(q)) - Left + 1 \in 1..Len(Whole(q))
<1>1. Len(stream) \in Nat \ {0} /\ Head(stream) = stream[1] /\ Len(answer) \in Nat
  BY Heads, LenProperties DEF TypeOK
<1>2. Left \in Nat /\ Left >= 1
  BY <1>1 DEF Left
<1>3. PICK w : w = Whole(q) OBVIOUS
<1>4. Len(w) \in Nat /\ Left <= Len(w) /\ stream[1] = w[Len(w) - Left + 1]
  BY <1>1, <1>3, WholeIs DEF Remains
<1>5. Len(w) - Left + 1 \in 1..Len(w)
  BY <1>2, <1>4
<1> QED BY <1>1, <1>2, <1>3, <1>4, <1>5

\* Nothing comes after a request's terminator.
LEMMA EndsAtTerminator ==
  ASSUME TypeOK, Sent, NEW q \in Requests, Remains(Whole(q)), stream # <<>>, IsTerminatorOf(q)
  PROVE  Left = 1 /\ Len(stream) = 1 /\ answer = <<>> /\ Head(stream).what # "ragged"
<1>1. Head(stream).of = q /\ Head(stream).what \in Terminators
  BY DEF IsTerminatorOf
<1>2. Len(Whole(q)) - Left + 1 = Len(Whole(q))
  BY <1>1, LeftIs, WholeIs
<1>3. Len(Whole(q)) \in Nat /\ Left \in Nat /\ Len(stream) \in Nat \ {0} /\ Len(answer) \in Nat
  BY LeftIs, WholeIs
<1>4. Left = 1
  BY <1>2, <1>3
<1>5. Len(stream) = 1 /\ Len(answer) = 0
  <2>1. PICK m \in Nat \ {0}, n \in Nat : m = Len(stream) /\ n = Len(answer)
    BY <1>3
  <2>2. m + n = 1
    BY <1>4, <2>1 DEF Left
  <2>3. m = 1 /\ n = 0
    BY <2>1, <2>2
  <2> QED BY <2>1, <2>3
<1>6. answer = <<>>
  BY <1>5, EmptySeq DEF TypeOK
<1> QED BY <1>1, <1>4, <1>5, <1>6 DEF Terminators

\* What was read is gone, and the rest is what is left.
LEMMA ReadsOn ==
  ASSUME TypeOK, Sent, NEW q \in Requests, Remains(Whole(q)), NEW n \in {1, 2}, n <= Len(stream),
         stream' \in Seq(Tokens), Len(stream') = Len(stream) - n,
         \A i \in 1..(Len(stream) - n) : stream'[i] = stream[n + i],
         answer' = answer, sent' = sent
  PROVE  Remains(Whole(q))' /\ Left' = Left - n
<1>1. Len(stream) \in Nat /\ Len(answer) \in Nat /\ Len(Whole(q)) \in Nat
  BY WholeIs, LenProperties DEF TypeOK
<1>2. Left' = Left - n /\ Left \in Nat /\ Left = Len(stream) + Len(answer)
  BY <1>1 DEF Left
<1>3. PICK w : w = Whole(q) OBVIOUS
<1>4. Whole(q)' = w
  BY <1>3 DEF Whole
<1>5. Remains(w) /\ Len(w) \in Nat
  BY <1>1, <1>3
<1>6. \A i \in 1..Len(stream') : stream'[i] = w[Len(w) - Left' + i]
  <2> TAKE i \in 1..Len(stream')
  <2>1. n + i \in 1..Len(stream) /\ stream'[i] = stream[n + i]
    BY <1>1
  <2>2. stream[n + i] = w[Len(w) - Left + (n + i)]
    BY <1>5, <2>1 DEF Remains
  <2>3. Len(w) - Left + (n + i) = Len(w) - Left' + i
    BY <1>1, <1>2, <1>5
  <2> QED BY <2>1, <2>2, <2>3
<1>7. \A i \in 1..Len(answer') : answer'[i] = w[Len(w) - Len(answer') + i]
  BY <1>5 DEF Remains
<1>8. Left' <= Len(w)
  BY <1>2, <1>5 DEF Remains
<1>9. Remains(Whole(q))'
  BY <1>4, <1>6, <1>7, <1>8 DEF Remains
<1> QED BY <1>2, <1>9

LEMMA SendsOn ==
  ASSUME TypeOK, Sent, RemoteSends
  PROVE  /\ Left' = Left /\ sent' = sent
         /\ \A q \in Requests : Remains(Whole(q)) => Remains(Whole(q))'
<1>1. /\ answer # <<>> /\ answer' = Tail(answer) /\ stream' = Append(stream, Head(answer)) /\ sent' = sent
      /\ answer \in Seq(Tokens) /\ stream \in Seq(Tokens)
  BY DEF RemoteSends, TypeOK
<1>2. /\ Head(answer) = answer[1] /\ Head(answer) \in Tokens
      /\ Len(answer) \in Nat \ {0} /\ Len(answer') = Len(answer) - 1
      /\ \A i \in 1..(Len(answer) - 1) : answer'[i] = answer[i + 1]
  BY <1>1, Heads
<1>3. /\ Len(stream) \in Nat /\ Len(stream') = Len(stream) + 1 /\ stream'[Len(stream) + 1] = answer[1]
      /\ \A i \in 1..Len(stream) : stream'[i] = stream[i]
  BY <1>1, <1>2, LenProperties, AppendProperties
<1>4. Left' = Left /\ Left \in Nat /\ Left = Len(stream) + Len(answer)
  BY <1>2, <1>3 DEF Left
<1>5. ASSUME NEW q \in Requests, Remains(Whole(q)) PROVE Remains(Whole(q))'
  <2>1. PICK w : w = Whole(q) OBVIOUS
  <2>2. Whole(q)' = w
    BY <1>1, <2>1 DEF Whole
  <2>3. Remains(w) /\ Len(w) \in Nat
    BY <1>5, <2>1, WholeIs
  <2>4. \A i \in 1..Len(stream') : stream'[i] = w[Len(w) - Left' + i]
    <3>1. \A i \in 1..Len(stream) : stream'[i] = w[Len(w) - Left' + i]
      BY <1>3, <1>4, <2>3 DEF Remains
    <3>2. 1 \in 1..Len(answer) /\ answer[1] = w[Len(w) - Len(answer) + 1]
      BY <1>2, <2>3 DEF Remains
    <3>3. Len(w) - Left' + (Len(stream) + 1) = Len(w) - Len(answer) + 1
      BY <1>2, <1>3, <1>4, <2>3
    <3>4. stream'[Len(stream) + 1] = w[Len(w) - Left' + (Len(stream) + 1)]
      BY <1>3, <3>2, <3>3
    <3> QED BY <1>3, <3>1, <3>4
  <2>5. \A i \in 1..Len(answer') : answer'[i] = w[Len(w) - Len(answer') + i]
    <3> TAKE i \in 1..Len(answer')
    <3>1. i \in 1..(Len(answer) - 1) /\ i + 1 \in 1..Len(answer) /\ answer'[i] = answer[i + 1]
      BY <1>2
    <3>2. answer[i + 1] = w[Len(w) - Len(answer) + (i + 1)]
      BY <2>3, <3>1 DEF Remains
    <3>3. Len(w) - Len(answer) + (i + 1) = Len(w) - Len(answer') + i
      BY <1>2, <2>3, <3>1
    <3> QED BY <3>1, <3>2, <3>3
  <2>6. Left' <= Len(w)
    BY <1>4, <2>3 DEF Remains
  <2> QED BY <2>2, <2>4, <2>5, <2>6 DEF Remains
<1> QED BY <1>1, <1>4, <1>5

(***************************************************************************)
(* The gate has one holder                                                 *)
(***************************************************************************)
\* What reading a line comes to.
LEMMA LineRead ==
  ASSUME TypeOK, NEW q \in Requests, TakeLine(q)
  PROVE  /\ pc[q] \in {"line", "linger"} /\ LineReady /\ ReadLine /\ stream # <<>>
         /\ UNCHANGED <<gate, ctx, sent>> /\ (broken => broken')
         /\ \/ /\ IsTerminatorOf(q) /\ UNCHANGED got
               /\ \E how \in {"ok", "torn", "broken", "cancelled", "expired"} : Return(q, how)
            \/ broken' /\ UNCHANGED got /\ Return(q, "broken")
            \/ ctx[q] # "live" /\ ~ IsTerminatorOf(q) /\ UNCHANGED <<got, result>> /\ Goto(q, "drain")
            \/ /\ ~ IsTerminatorOf(q) /\ ~ IsBadHeader(q) /\ UNCHANGED result
               /\ got' = [got EXCEPT ![q] = Append(@, Head(stream))]
               /\ \/ IsHeader(q) /\ Goto(q, "frame")
                  \/ ~ IsHeader(q) /\ Goto(q, "read")
<1>1. /\ pc[q] \in {"line", "linger"} /\ LineReady /\ ReadLine /\ stream # <<>>
      /\ UNCHANGED <<gate, ctx, sent>>
  BY DEF TakeLine, LineReady
<1>2. ctx[q] \in {"live", "cancelled", "expired"}
  BY DEF TypeOK
<1>3. CASE ctx[q] # "live"
  BY <1>1, <1>2, <1>3 DEF TakeLine, stops
<1>4. CASE ctx[q] = "live" /\ IsTerminatorOf(q)
  BY <1>1, <1>4 DEF TakeLine, TakeTerminator, Spoil, stops
<1>5. CASE ctx[q] = "live" /\ ~ IsTerminatorOf(q) /\ IsBadHeader(q)
  BY <1>1, <1>5 DEF TakeLine, Spoil
<1>6. CASE ctx[q] = "live" /\ ~ IsTerminatorOf(q) /\ ~ IsBadHeader(q)
  BY <1>1, <1>6 DEF TakeLine, stops
<1> QED BY <1>3, <1>4, <1>5, <1>6

LEMMA LineDrained ==
  ASSUME TypeOK, Gated, NEW q \in Requests, Drain(q)
  PROVE  /\ pc[q] = "drain" /\ LineReady /\ ReadLine /\ stream # <<>>
         /\ UNCHANGED <<gate, ctx, sent, got>> /\ (broken => broken') /\ ctx[q] \in {"cancelled", "expired"}
         /\ \/ IsTerminatorOf(q) /\ Return(q, ctx[q])
            \/ broken' /\ Return(q, ctx[q])
            \/ ~ IsTerminatorOf(q) /\ UNCHANGED result /\ (Goto(q, "drain") \/ Goto(q, "drainframe"))
<1>1. /\ pc[q] = "drain" /\ LineReady /\ ReadLine /\ stream # <<>>
      /\ UNCHANGED <<gate, ctx, sent, got>>
  BY DEF Drain, LineReady
<1>2. ctx[q] \in {"cancelled", "expired"}
  BY <1>1 DEF Gated, TypeOK
<1>3. CASE IsTerminatorOf(q)
  BY <1>1, <1>2, <1>3 DEF Drain, stops
<1>4. CASE ~ IsTerminatorOf(q) /\ IsBadHeader(q)
  BY <1>1, <1>2, <1>4 DEF Drain, Spoil
<1>5. CASE ~ IsTerminatorOf(q) /\ ~ IsBadHeader(q)
  BY <1>1, <1>2, <1>5 DEF Drain, stops
<1> QED BY <1>3, <1>4, <1>5


LEMMA GateKept ==
  ASSUME TypeOK, Gated, NEW q \in Requests, pc[q] \in Inside, gate' = gate, ctx' = ctx,
         NEW p \in Inside, Goto(q, p), p \in {"linger", "drain", "drainframe"} => ctx[q] # "live",
         result' = result \/ (p = "finished" /\ \E how : result' = [result EXCEPT ![q] = how]),
         pc[q] \notin Ended \/ (pc[q] = "finished" /\ p = "published" /\ result' = result)
  PROVE  Gated'
<1>1. pc'[q] = p /\ \A r \in Requests \ {q} : pc'[r] = pc[r]
  BY DEF Goto, TypeOK
<1>2. \A r \in Requests : (r # q \/ p # "finished") => result'[r] = result[r]
  BY DEF TypeOK
<1> QED BY <1>1, <1>2 DEF Gated, Inside, Ended, Reading

LEMMA GateHasOneHolder ==
  ASSUME TypeOK, Gated, Sent, [Next]_vars
  PROVE  Gated'
<1> USE SessionAssumption
<1>1. ASSUME NEW q \in Requests, Outside(q) PROVE Gated'
  BY <1>1 DEF Outside, Gated, TypeOK, Goto, Return, Inside, Ended, Reading
<1>2. ASSUME NEW q \in Requests, Entering(q) PROVE Gated'
  BY <1>2 DEF Entering, Gated, TypeOK, Goto, Return, Inside, Ended, Reading
<1>3. ASSUME NEW q \in Requests, Moving(q) PROVE Gated'
  <2>1. CASE pc[q] = "finished"
    <3>1. gate' = gate /\ ctx' = ctx /\ UNCHANGED result /\ Goto(q, "published")
      BY <1>3, <2>1 DEF Moving, Ended
    <3> QED BY <2>1, <3>1, GateKept DEF Inside, Ended
  <2>2. CASE pc[q] # "finished"
    <3>1. /\ pc[q] \in Inside /\ pc[q] \notin Ended /\ gate' = gate /\ ctx' = ctx
          /\ \/ \E how : Return(q, how)
             \/ result' = result /\ Goto(q, "write")
             \/ result' = result /\ Goto(q, "line")
             \/ ctx[q] # "live" /\ result' = result /\ Goto(q, "drain")
             \/ ctx[q] # "live" /\ result' = result /\ Goto(q, "linger")
      BY <1>3, <2>2 DEF Moving, Inside, Ended, Reading
    <3>2. {"finished", "drain", "linger", "write", "line"} \subseteq Inside
      BY DEF Inside, Ended, Reading
    <3> QED BY <3>1, <3>2, GateKept DEF Return
  <2> QED BY <2>1, <2>2
<1>4. ASSUME NEW q \in Requests, Leaving(q) PROVE Gated'
  <2>1. /\ gate = q /\ gate' = Free /\ pc'[q] \in {"released", "marking", "done"}
        /\ \A r \in Requests \ {q} : pc'[r] = pc[r] /\ ctx'[r] = ctx[r] /\ result'[r] = result[r]
        /\ pc'[q] = "released" \/ result'[q] = "none"
    BY <1>4 DEF Leaving, Gated, Goto, Inside, Ended, TypeOK
  <2>2. \A r \in Requests \ {q} : pc'[r] \notin Inside
    BY <2>1 DEF Gated
  <2> QED BY <2>1, <2>2 DEF Gated, Inside, Ended, Reading
<1>5. CASE Aside
  BY <1>5 DEF Aside, Gated, TypeOK, Goto, Return, Inside, Ended, Reading
<1>6. ASSUME NEW q \in Requests, Write(q) PROVE Gated'
  BY <1>6 DEF Write, Gated, TypeOK, Goto, Return, Inside, Ended, Reading
<1>7. ASSUME NEW q \in Requests, WriteBody(q) PROVE Gated'
  BY <1>7 DEF WriteBody, Gated, TypeOK, Goto, Return, Inside, Ended, Reading
<1>8. ASSUME NEW q \in Requests, TakeLine(q) PROVE Gated'
  <2>1. /\ pc[q] \in Inside /\ pc[q] \notin Ended /\ gate' = gate /\ ctx' = ctx
        /\ \/ \E how : Return(q, how)
           \/ ctx[q] # "live" /\ result' = result /\ Goto(q, "drain")
           \/ result' = result /\ Goto(q, "frame")
           \/ result' = result /\ Goto(q, "read")
    BY <1>8, LineRead DEF Inside, Ended, Reading
  <2>2. {"finished", "drain", "frame", "read"} \subseteq Inside
    BY DEF Inside, Ended, Reading
  <2> QED BY <2>1, <2>2, GateKept DEF Return
<1>9. ASSUME NEW q \in Requests, TakeFrame(q) PROVE Gated'
  BY <1>9 DEF TakeFrame, Gated, TypeOK, Goto, Return, Inside, Ended, Reading
<1>10. ASSUME NEW q \in Requests, Drain(q) PROVE Gated'
  <2>1. /\ pc[q] \in Inside /\ pc[q] \notin Ended /\ gate' = gate /\ ctx' = ctx
        /\ \/ \E how : Return(q, how)
           \/ ctx[q] # "live" /\ result' = result /\ Goto(q, "drain")
           \/ result' = result /\ ctx[q] # "live" /\ Goto(q, "drainframe")
    BY <1>10, LineDrained DEF Inside, Ended, Reading
  <2>2. {"finished", "drain", "drainframe"} \subseteq Inside
    BY DEF Inside, Ended, Reading
  <2> QED BY <2>1, <2>2, GateKept DEF Return
<1>11. ASSUME NEW q \in Requests, DrainFrame(q) PROVE Gated'
  BY <1>11 DEF DrainFrame, Gated, TypeOK, Goto, Return, Inside, Ended, Reading
<1>12. CASE RemoteSends
  BY <1>12 DEF RemoteSends, Gated
<1> QED
  BY StepKinds, <1>1, <1>2, <1>3, <1>4, <1>5, <1>6, <1>7, <1>8, <1>9, <1>10, <1>11, <1>12

(***************************************************************************)
(* Each invariant, step by step                                            *)
(***************************************************************************)
\* The holder of the gate writes to a wire with nothing on it, and no body of
\* another is waited for.
LEMMA WiresAreQuiet ==
  ASSUME TypeOK, Gated, Sent, Quiet, NEW q \in Requests, pc[q] \in {"entered", "write", "body"}, ~ broken
  PROVE  /\ answer = <<>> /\ stream = <<>> /\ sent[q] = <<>> /\ got[q] = <<>>
         /\ unread \in {q, Free, Debris} /\ (unread = q => pc[q] = "body")
         /\ \A r \in Requests : pc[r] \notin Reading
<1>1. \A r \in Requests : r # q => pc[r] \notin Inside
  BY DEF Gated, Inside, Ended
<1>2. \A r \in Requests : pc[r] \notin Reading
  BY <1>1 DEF Inside, Ended, Reading
<1> QED BY <1>1, <1>2 DEF Quiet, Sent, TypeOK, Inside, Ended, Reading

LEMMA WriteKinds ==
  ASSUME TypeOK, Gated, Sent, Quiet, NEW q \in Requests, Write(q) \/ WriteBody(q)
  PROVE  /\ pc[q] \in {"write", "body"} /\ ~ broken /\ ~ broken' /\ UNCHANGED <<gate, ctx, stream, result, got>>
         /\ answer = <<>> /\ stream = <<>> /\ sent[q] = <<>> /\ got[q] = <<>>
         /\ \A r \in Requests : pc[r] \notin Reading
         /\ \A r \in Requests \ {q} : sent'[r] = sent[r]
         /\ \/ /\ Goto(q, "body") /\ UNCHANGED <<sent, answer>> /\ unread' \in {q, Free, Debris}
            \/ /\ Goto(q, "read") /\ UNCHANGED sent /\ unread' \in {Free, Debris}
               /\ \/ answer' = <<>>
                  \/ answer' = <<[of |-> Debris, what |-> "line"], [of |-> q, what |-> "term"]>>
            \/ /\ Goto(q, "read") /\ unread' \in {Free, Debris} /\ Answered(q)
<1>1. /\ pc[q] \in {"write", "body"} /\ ~ broken /\ ~ broken' /\ UNCHANGED <<gate, ctx, stream, result, got>>
  BY DEF Write, WriteBody, Unusable, stops
<1>2. /\ answer = <<>> /\ stream = <<>> /\ sent[q] = <<>> /\ got[q] = <<>>
      /\ unread \in {q, Free, Debris} /\ (unread = q => pc[q] = "body")
      /\ \A r \in Requests : pc[r] \notin Reading
  BY <1>1, WiresAreQuiet
<1>3. CASE Write(q)
  <2>1. CASE unread = Debris
    <3>1. SentIntoDebris(q) /\ Goto(q, IF Kind[q] = "put" THEN "body" ELSE "read")
      BY <1>3, <2>1 DEF Write
    <3> QED BY <1>1, <1>2, <2>1, <3>1 DEF SentIntoDebris
  <2>2. CASE unread # Debris /\ Kind[q] = "put"
    BY <1>1, <1>2, <1>3, <2>2 DEF Write
  <2>3. CASE unread # Debris /\ Kind[q] # "put"
    <3>1. Answered(q) /\ Goto(q, "read")
      BY <1>3, <2>3 DEF Write
    <3> QED BY <1>1, <1>2, <3>1, AnswerStarts
  <2> QED BY <2>1, <2>2, <2>3
<1>4. CASE WriteBody(q)
  <2>1. CASE unread = q
    <3>1. Answered(q) /\ Goto(q, "read")
      BY <1>4, <2>1 DEF WriteBody
    <3> QED BY <1>1, <1>2, <3>1, AnswerStarts
  <2>2. CASE unread # q
    BY <1>1, <1>2, <1>4, <2>2 DEF WriteBody
  <2> QED BY <2>1, <2>2
<1> QED BY <1>3, <1>4

LEMMA AnswersAreTheirs ==
  ASSUME TypeOK, Gated, Sent, Quiet, [Next]_vars
  PROVE  Sent'
<1>1. ASSUME NEW q \in Requests, Outside(q) PROVE Sent'
  BY <1>1 DEF Outside, Sent, TypeOK, Goto, Return, Inside, Ended, Reading
<1>2. ASSUME NEW q \in Requests, Entering(q) PROVE Sent'
  BY <1>2 DEF Entering, Sent, TypeOK, Goto, Return, Inside, Ended, Reading
<1>3. ASSUME NEW q \in Requests, Moving(q) PROVE Sent'
  BY <1>3 DEF Moving, Sent, TypeOK, Goto, Return, Inside, Ended, Reading
<1>4. ASSUME NEW q \in Requests, Leaving(q) PROVE Sent'
  <2>1. sent'[q] = <<>> /\ got'[q] = <<>> /\ \A r \in Requests \ {q} : sent'[r] = sent[r] /\ got'[r] = got[r]
    BY <1>4 DEF Leaving, TypeOK
  <2>2. \A r \in Requests \ {q} : pc'[r] = pc[r]
    BY <1>4 DEF Leaving, Goto, TypeOK
  <2> QED BY <2>1, <2>2 DEF Sent, Ended, Reading
<1>5. CASE Aside
  BY <1>5 DEF Aside, Sent, TypeOK, Goto, Return, Inside, Ended, Reading
<1>6. ASSUME NEW q \in Requests, Write(q) PROVE Sent'
  <2>1. pc'[q] \in {"body", "read"} /\ \A r \in Requests \ {q} : pc'[r] = pc[r]
    BY <1>6, WriteKinds DEF Goto, TypeOK
  <2>2. got' = got /\ got[q] = <<>> /\ sent[q] = <<>> /\ \A r \in Requests \ {q} : sent'[r] = sent[r]
    BY <1>6, WriteKinds
  <2>3. sent'[q] # <<>> => pc'[q] = "read" /\ sent'[q] \in Answers[Kind[q]]
    BY <1>6, <2>2, WriteKinds, AnswerStarts DEF Goto, TypeOK
  <2> QED BY <2>1, <2>2, <2>3 DEF Sent, Reading
<1>7. ASSUME NEW q \in Requests, WriteBody(q) PROVE Sent'
  <2>1. pc'[q] \in {"body", "read"} /\ \A r \in Requests \ {q} : pc'[r] = pc[r]
    BY <1>7, WriteKinds DEF Goto, TypeOK
  <2>2. got' = got /\ got[q] = <<>> /\ sent[q] = <<>> /\ \A r \in Requests \ {q} : sent'[r] = sent[r]
    BY <1>7, WriteKinds
  <2>3. sent'[q] # <<>> => pc'[q] = "read" /\ sent'[q] \in Answers[Kind[q]]
    BY <1>7, <2>2, WriteKinds, AnswerStarts DEF Goto, TypeOK
  <2> QED BY <2>1, <2>2, <2>3 DEF Sent, Reading
<1>8. ASSUME NEW q \in Requests, TakeLine(q) PROVE Sent'
  <2>1. sent' = sent
    BY <1>8, LineRead DEF TypeOK
  <2>2. pc'[q] \in Reading \cup {"finished"}
    BY <1>8, LineRead DEF TypeOK, Goto, Return, TypeOK, Reading
  <2>3. \A r \in Requests \ {q} : pc'[r] = pc[r]
    <3>1. \E p : Goto(q, p)
      BY <1>8, LineRead DEF Return
    <3> QED BY <3>1 DEF Goto, TypeOK
  <2>4. got' = got \/ got' = [got EXCEPT ![q] = Append(@, Head(stream))]
    BY <1>8, LineRead
  <2>5. \A r \in Requests \ {q} : got'[r] = got[r]
    BY <2>4 DEF TypeOK
  <2> QED BY <2>1, <2>2, <2>3, <2>5 DEF Sent, Ended, Reading
<1>9. ASSUME NEW q \in Requests, TakeFrame(q) PROVE Sent'
  <2>1. sent' = sent
    BY <1>9 DEF TakeFrame
  <2>2. pc'[q] \in Reading \cup {"finished"}
    BY <1>9 DEF TakeFrame, Goto, Return, TypeOK, Reading
  <2>3. \A r \in Requests \ {q} : pc'[r] = pc[r] /\ got'[r] = got[r]
    BY <1>9 DEF TakeFrame, Goto, Return, TypeOK
  <2> QED BY <2>1, <2>2, <2>3 DEF Sent, Ended, Reading
<1>10. ASSUME NEW q \in Requests, Drain(q) PROVE Sent'
  <2>1. sent' = sent
    BY <1>10, LineDrained DEF TypeOK
  <2>2. pc'[q] \in Reading \cup {"finished"}
    BY <1>10, LineDrained DEF TypeOK, Goto, Return, TypeOK, Reading
  <2>3. \A r \in Requests \ {q} : pc'[r] = pc[r] /\ got'[r] = got[r]
    <3>1. PICK p \in {"finished", "drain", "drainframe"} : pc' = [pc EXCEPT ![q] = p]
      BY <1>10, LineDrained DEF Goto, Return
    <3>2. got' = got
      BY <1>10, LineDrained
    <3> QED BY <3>1, <3>2 DEF TypeOK
  <2> QED BY <2>1, <2>2, <2>3 DEF Sent, Ended, Reading
<1>11. ASSUME NEW q \in Requests, DrainFrame(q) PROVE Sent'
  <2>1. sent' = sent
    BY <1>11 DEF DrainFrame
  <2>2. pc'[q] \in Reading \cup {"finished"}
    BY <1>11 DEF DrainFrame, Goto, Return, TypeOK, Reading
  <2>3. \A r \in Requests \ {q} : pc'[r] = pc[r] /\ got'[r] = got[r]
    BY <1>11 DEF DrainFrame, Goto, Return, TypeOK
  <2> QED BY <2>1, <2>2, <2>3 DEF Sent, Ended, Reading
<1>12. CASE RemoteSends
  BY <1>12 DEF RemoteSends, Sent
<1> QED
  BY StepKinds, <1>1, <1>2, <1>3, <1>4, <1>5, <1>6, <1>7, <1>8, <1>9, <1>10, <1>11, <1>12

LEMMA WireIsQuiet ==
  ASSUME TypeOK, Gated, Sent, Quiet, Answering, [Next]_vars
  PROVE  Quiet'
<1>1. ASSUME NEW q \in Requests, Outside(q) PROVE Quiet'
  BY <1>1 DEF Outside, Quiet, TypeOK, Goto, Return, Inside, Ended, Reading, wire
<1>2. ASSUME NEW q \in Requests, Entering(q) PROVE Quiet'
  BY <1>2 DEF Entering, Quiet, TypeOK, Goto, Return, Inside, Ended, Reading, wire
<1>3. ASSUME NEW q \in Requests, Moving(q) PROVE Quiet'
  <2>1. UNCHANGED wire /\ (broken => broken')
    BY <1>3 DEF Moving
  <2>2. CASE broken'
    BY <2>2 DEF Quiet
  <2>3. CASE ~ broken' /\ pc[q] = "entered"
    <3>1. answer' = <<>> /\ stream' = <<>> /\ unread' \in {Free, Debris}
      BY <2>1, <2>3, WiresAreQuiet DEF wire
    <3> QED BY <3>1, SessionAssumption DEF Quiet
  <2>5. CASE ~ broken' /\ pc[q] = "finished"
    <3>1. pc'[q] = "published" /\ \A r \in Requests \ {q} : pc'[r] = pc[r]
      BY <1>3, <2>5 DEF Moving, Goto, Ended, TypeOK
    <3> QED BY <2>1, <2>5, <3>1 DEF Quiet, Reading, wire
  <2>4. CASE ~ broken' /\ pc[q] \notin {"entered", "finished"}
    <3>1. pc[q] \in Reading /\ pc'[q] \in Reading /\ \A r \in Requests \ {q} : pc'[r] = pc[r]
      BY <1>3, <2>4 DEF Moving, Goto, Return, Inside, Ended, Reading, TypeOK
    <3>2. unread \in Requests => pc[unread] = "body"
      BY <2>1, <2>4 DEF Quiet
    <3>3. unread' \in Requests => pc'[unread'] = "body"
      BY <2>1, <3>1, <3>2 DEF wire, Reading
    <3> QED BY <3>1, <3>3 DEF Quiet
  <2> QED BY <2>2, <2>3, <2>4, <2>5
<1>4. ASSUME NEW q \in Requests, Leaving(q) PROVE Quiet'
  BY <1>4 DEF Leaving, Quiet, TypeOK, Goto, Return, Inside, Ended, Reading, wire
<1>5. CASE Aside
  BY <1>5 DEF Aside, Quiet, TypeOK, Goto, Return, Inside, Ended, Reading, wire
<1>6. ASSUME NEW q \in Requests, Write(q) PROVE Quiet'
  <2>1. ~ broken /\ \A r \in Requests : pc[r] # "body" \/ r = q
    BY <1>6, WriteKinds DEF Gated, Inside, Ended
  <2>2. CASE pc'[q] = "body"
    <3>1. answer' = <<>> /\ stream' = <<>> /\ unread' \in {q, Free, Debris}
      BY <1>6, <2>2, WriteKinds DEF Goto, TypeOK
    <3> QED BY <2>2, <3>1, SessionAssumption DEF Quiet
  <2>3. CASE pc'[q] = "read"
    <3>1. unread' \in {Free, Debris}
      BY <1>6, <2>3, WriteKinds DEF Goto, TypeOK
    <3> QED BY <2>3, <3>1, SessionAssumption DEF Quiet, Reading
  <2> QED BY <1>6, <2>2, <2>3, WriteKinds DEF Goto, TypeOK
<1>7. ASSUME NEW q \in Requests, WriteBody(q) PROVE Quiet'
  <2>1. ~ broken /\ \A r \in Requests : pc[r] # "body" \/ r = q
    BY <1>7, WriteKinds DEF Gated, Inside, Ended
  <2>2. CASE pc'[q] = "body"
    <3>1. answer' = <<>> /\ stream' = <<>> /\ unread' \in {q, Free, Debris}
      BY <1>7, <2>2, WriteKinds DEF Goto, TypeOK
    <3> QED BY <2>2, <3>1, SessionAssumption DEF Quiet
  <2>3. CASE pc'[q] = "read"
    <3>1. unread' \in {Free, Debris}
      BY <1>7, <2>3, WriteKinds DEF Goto, TypeOK
    <3> QED BY <2>3, <3>1, SessionAssumption DEF Quiet, Reading
  <2> QED BY <1>7, <2>2, <2>3, WriteKinds DEF Goto, TypeOK
<1>8. ASSUME NEW q \in Requests, TakeLine(q) PROVE Quiet'
  <2>1. pc[q] \in Reading /\ unread' = unread /\ (broken => broken')
    BY <1>8, LineRead, LineTaken DEF Reading
  <2>2. unread \in Requests => broken
    BY <2>1 DEF Quiet, Gated, Inside, Ended, Reading
  <2>3. broken' \/ pc'[q] \in Reading \/ (answer' = <<>> /\ stream' = <<>>)
    <3>1. CASE IsTerminatorOf(q)
      <4>1. Len(stream) = 1 /\ LineTokens = 1 /\ answer = <<>> /\ LineReady /\ ReadLine
        BY <1>8, <3>1, LineRead, EndsAtTerminator, LineTaken DEF Answering, Reading
      <4>2. answer' = <<>> /\ stream' \in Seq(Tokens) /\ Len(stream') = 0
        BY <4>1, LineTaken
      <4> QED BY <4>2, EmptySeq
    <3>2. CASE ~ IsTerminatorOf(q)
      BY <1>8, <3>2, LineRead DEF Goto, Return, TypeOK, Reading
    <3> QED BY <3>1, <3>2
  <2> QED BY <2>1, <2>2, <2>3 DEF Quiet
<1>9. ASSUME NEW q \in Requests, TakeFrame(q) PROVE Quiet'
  <2>1. pc[q] \in Reading /\ unread' = unread /\ (broken => broken')
    BY <1>9, FrameTaken DEF TakeFrame, stops, Reading
  <2>2. unread \in Requests => broken
    BY <2>1 DEF Quiet, Gated, Inside, Ended, Reading
  <2>3. broken' \/ pc'[q] \in Reading \/ (answer' = <<>> /\ stream' = <<>>)
    BY <1>9 DEF TakeFrame, Goto, TypeOK, Reading
  <2> QED BY <2>1, <2>2, <2>3 DEF Quiet
<1>10. ASSUME NEW q \in Requests, Drain(q) PROVE Quiet'
  <2>1. pc[q] \in Reading /\ unread' = unread /\ (broken => broken')
    BY <1>10, LineDrained, LineTaken DEF Reading
  <2>2. unread \in Requests => broken
    BY <2>1 DEF Quiet, Gated, Inside, Ended, Reading
  <2>3. broken' \/ pc'[q] \in Reading \/ (answer' = <<>> /\ stream' = <<>>)
    <3>1. CASE IsTerminatorOf(q)
      <4>1. Len(stream) = 1 /\ LineTokens = 1 /\ answer = <<>> /\ LineReady /\ ReadLine
        BY <1>10, <3>1, LineDrained, EndsAtTerminator, LineTaken DEF Answering, Reading
      <4>2. answer' = <<>> /\ stream' \in Seq(Tokens) /\ Len(stream') = 0
        BY <4>1, LineTaken
      <4> QED BY <4>2, EmptySeq
    <3>2. CASE ~ IsTerminatorOf(q)
      BY <1>10, <3>2, LineDrained DEF Goto, Return, TypeOK, Reading
    <3> QED BY <3>1, <3>2
  <2> QED BY <2>1, <2>2, <2>3 DEF Quiet
<1>11. ASSUME NEW q \in Requests, DrainFrame(q) PROVE Quiet'
  <2>1. pc[q] \in Reading /\ unread' = unread /\ (broken => broken')
    BY <1>11, FrameTaken DEF DrainFrame, stops, Reading
  <2>2. unread \in Requests => broken
    BY <2>1 DEF Quiet, Gated, Inside, Ended, Reading
  <2>3. broken' \/ pc'[q] \in Reading \/ (answer' = <<>> /\ stream' = <<>>)
    BY <1>11 DEF DrainFrame, Goto, TypeOK, Reading
  <2> QED BY <2>1, <2>2, <2>3 DEF Quiet
<1>12. CASE RemoteSends
  <2>1. answer # <<>> /\ UNCHANGED <<pc, unread, broken>>
    BY <1>12 DEF RemoteSends, stops
  <2> QED BY <2>1 DEF Quiet
<1> QED
  BY StepKinds, <1>1, <1>2, <1>3, <1>4, <1>5, <1>6, <1>7, <1>8, <1>9, <1>10, <1>11, <1>12

\* What is on its way, and what was answered, is all that matters to what is left.
LEMMA RemainsKept ==
  ASSUME NEW q \in Requests, UNCHANGED <<answer, stream>>, sent'[q] = sent[q]
  PROVE  Remains(Whole(q))' <=> Remains(Whole(q))
BY DEF Remains, Whole, Left

\* Whoever reads is alone at it.
LEMMA OneReads ==
  ASSUME TypeOK, Gated, NEW q \in Requests, pc[q] \in Reading
  PROVE  \A r \in Requests \ {q} : pc[r] \notin Inside /\ pc[r] \notin Reading
BY DEF Gated, Inside, Ended, Reading

LEMMA FrameRest ==
  ASSUME TypeOK, Sent, NEW q \in Requests, Remains(Whole(q)), FrameReady, ReadFrame, sent' = sent
  PROVE  Remains(Whole(q))' /\ Left' = Left - 1
<1>1. 1 \in {1, 2} /\ 1 <= Len(stream) /\ \A i \in 1..(Len(stream) - 1) : stream'[i] = stream[1 + i]
  BY FrameTaken
<1> QED BY <1>1, FrameTaken, ReadsOn

LEMMA RestIsOfTheReader ==
  ASSUME TypeOK, Gated, Sent, Quiet, Answering, [Next]_vars
  PROVE  Answering'
<1>1. ASSUME NEW q \in Requests, Outside(q) PROVE Answering'
  <2>1. UNCHANGED <<answer, stream, sent>>
    BY <1>1 DEF Outside, wire
  <2>2. \A r \in Requests : pc'[r] \in Reading => pc[r] \in Reading
    BY <1>1 DEF Outside, Goto, Return, Inside, Ended, Reading, TypeOK
  <2> QED BY <2>1, <2>2, RemainsKept DEF Answering
<1>2. ASSUME NEW q \in Requests, Entering(q) PROVE Answering'
  <2>1. UNCHANGED <<answer, stream, sent>>
    BY <1>2 DEF Entering, wire
  <2>2. \A r \in Requests : pc'[r] \in Reading => pc[r] \in Reading
    BY <1>2 DEF Entering, Goto, Return, Inside, Ended, Reading, TypeOK
  <2> QED BY <2>1, <2>2, RemainsKept DEF Answering
<1>3. ASSUME NEW q \in Requests, Moving(q) PROVE Answering'
  <2>1. UNCHANGED <<answer, stream, sent>>
    BY <1>3 DEF Moving, wire
  <2>2. \A r \in Requests : pc'[r] \in Reading => pc[r] \in Reading
    BY <1>3 DEF Moving, Goto, Return, Inside, Ended, Reading, TypeOK
  <2> QED BY <2>1, <2>2, RemainsKept DEF Answering
<1>4. ASSUME NEW q \in Requests, Leaving(q) PROVE Answering'
  <2>1. UNCHANGED <<answer, stream>> /\ \A r \in Requests \ {q} : sent'[r] = sent[r]
    BY <1>4 DEF Leaving, wire, TypeOK
  <2>2. \A r \in Requests : pc'[r] \in Reading => r # q /\ pc[r] \in Reading
    BY <1>4 DEF Leaving, Goto, Reading, TypeOK
  <2> QED BY <2>1, <2>2, RemainsKept DEF Answering
<1>5. CASE Aside
  <2>1. UNCHANGED <<answer, stream, sent>>
    BY <1>5 DEF Aside, wire
  <2>2. \A r \in Requests : pc'[r] \in Reading => pc[r] \in Reading
    BY <1>5 DEF Aside, Goto, Return, Inside, Ended, Reading, TypeOK
  <2> QED BY <2>1, <2>2, RemainsKept DEF Answering
<1>6. ASSUME NEW q \in Requests, Write(q) PROVE Answering'
  <2>1. /\ \A r \in Requests \ {q} : pc'[r] \notin Reading
        /\ stream' = <<>> /\ answer = <<>> /\ sent[q] = <<>>
    <3>1. \A r \in Requests : pc[r] \notin Reading
      BY <1>6, WriteKinds
    <3>2. \E p : Goto(q, p)
      BY <1>6, WriteKinds
    <3>3. \A r \in Requests \ {q} : pc'[r] = pc[r]
      BY <3>2 DEF Goto, TypeOK
    <3>4. stream' = <<>> /\ answer = <<>> /\ sent[q] = <<>>
      BY <1>6, WriteKinds
    <3> QED BY <3>1, <3>3, <3>4
  <2>2. CASE Goto(q, "body")
    BY <2>1, <2>2 DEF Answering, Goto, TypeOK, Reading
  <2>3. CASE sent' = sent /\ answer' = <<>>
    <3>1. Len(stream') = 0 /\ Len(answer') = 0 /\ Left' = 0
      BY <2>1, <2>3, EmptySeq DEF Left
    <3>2. PICK w : w = Whole(q)' OBVIOUS
    <3>3. Len(w) = 2
      BY <2>1, <2>3, <3>2 DEF Whole
    <3>4. \A i \in 1..0 : FALSE
      OBVIOUS
    <3>5. Remains(Whole(q))'
      BY <3>1, <3>2, <3>3, <3>4 DEF Remains
    <3> QED BY <2>1, <3>5 DEF Answering
  <2>4. CASE sent' = sent /\ answer' = <<[of |-> Debris, what |-> "line"], [of |-> q, what |-> "term"]>>
    <3>1. Len(stream') = 0 /\ Len(answer') = 2 /\ Left' = 2
      BY <2>1, <2>4, EmptySeq DEF Left
    <3>2. PICK w : w = Whole(q)' OBVIOUS
    <3>3. w = answer' /\ Len(w) = 2
      BY <2>1, <2>4, <3>1, <3>2 DEF Whole
    <3>4. \A i \in 1..2 : i = Len(w) - 2 + i
      BY <3>3
    <3>5. \A i \in 1..0 : FALSE
      OBVIOUS
    <3>6. Remains(Whole(q))'
      BY <3>1, <3>2, <3>3, <3>4, <3>5 DEF Remains
    <3> QED BY <2>1, <3>6 DEF Answering
  <2>5. CASE Answered(q)
    <3>1. /\ sent'[q] \in Answers[Kind[q]] /\ Len(answer') = Len(sent'[q])
          /\ answer' = [i \in 1..Len(sent'[q]) |-> [of |-> q, what |-> sent'[q][i]]]
      BY <2>5, AnswerStarts
    <3>2. sent'[q] # <<>> /\ Len(sent'[q]) \in Nat
      BY <3>1, AnswersAreTokens
    <3>3. Whole(q)' = answer'
      BY <3>1, <3>2 DEF Whole
    <3>4. Len(stream') = 0 /\ Left' = Len(answer') /\ Len(answer') \in Nat
      BY <2>1, <3>1, <3>2, EmptySeq DEF Left
    <3>5. Remains(Whole(q))'
      BY <3>3, <3>4 DEF Remains
    <3> QED BY <2>1, <3>5 DEF Answering
  <2> QED BY <1>6, <2>2, <2>3, <2>4, <2>5, WriteKinds
<1>7. ASSUME NEW q \in Requests, WriteBody(q) PROVE Answering'
  <2>1. /\ \A r \in Requests \ {q} : pc'[r] \notin Reading
        /\ stream' = <<>> /\ answer = <<>> /\ sent[q] = <<>>
    <3>1. \A r \in Requests : pc[r] \notin Reading
      BY <1>7, WriteKinds
    <3>2. \E p : Goto(q, p)
      BY <1>7, WriteKinds
    <3>3. \A r \in Requests \ {q} : pc'[r] = pc[r]
      BY <3>2 DEF Goto, TypeOK
    <3>4. stream' = <<>> /\ answer = <<>> /\ sent[q] = <<>>
      BY <1>7, WriteKinds
    <3> QED BY <3>1, <3>3, <3>4
  <2>2. CASE Goto(q, "body")
    BY <2>1, <2>2 DEF Answering, Goto, TypeOK, Reading
  <2>3. CASE sent' = sent /\ answer' = <<>>
    <3>1. Len(stream') = 0 /\ Len(answer') = 0 /\ Left' = 0
      BY <2>1, <2>3, EmptySeq DEF Left
    <3>2. PICK w : w = Whole(q)' OBVIOUS
    <3>3. Len(w) = 2
      BY <2>1, <2>3, <3>2 DEF Whole
    <3>4. \A i \in 1..0 : FALSE
      OBVIOUS
    <3>5. Remains(Whole(q))'
      BY <3>1, <3>2, <3>3, <3>4 DEF Remains
    <3> QED BY <2>1, <3>5 DEF Answering
  <2>4. CASE sent' = sent /\ answer' = <<[of |-> Debris, what |-> "line"], [of |-> q, what |-> "term"]>>
    <3>1. Len(stream') = 0 /\ Len(answer') = 2 /\ Left' = 2
      BY <2>1, <2>4, EmptySeq DEF Left
    <3>2. PICK w : w = Whole(q)' OBVIOUS
    <3>3. w = answer' /\ Len(w) = 2
      BY <2>1, <2>4, <3>1, <3>2 DEF Whole
    <3>4. \A i \in 1..2 : i = Len(w) - 2 + i
      BY <3>3
    <3>5. \A i \in 1..0 : FALSE
      OBVIOUS
    <3>6. Remains(Whole(q))'
      BY <3>1, <3>2, <3>3, <3>4, <3>5 DEF Remains
    <3> QED BY <2>1, <3>6 DEF Answering
  <2>5. CASE Answered(q)
    <3>1. /\ sent'[q] \in Answers[Kind[q]] /\ Len(answer') = Len(sent'[q])
          /\ answer' = [i \in 1..Len(sent'[q]) |-> [of |-> q, what |-> sent'[q][i]]]
      BY <2>5, AnswerStarts
    <3>2. sent'[q] # <<>> /\ Len(sent'[q]) \in Nat
      BY <3>1, AnswersAreTokens
    <3>3. Whole(q)' = answer'
      BY <3>1, <3>2 DEF Whole
    <3>4. Len(stream') = 0 /\ Left' = Len(answer') /\ Len(answer') \in Nat
      BY <2>1, <3>1, <3>2, EmptySeq DEF Left
    <3>5. Remains(Whole(q))'
      BY <3>3, <3>4 DEF Remains
    <3> QED BY <2>1, <3>5 DEF Answering
  <2> QED BY <1>7, <2>2, <2>3, <2>4, <2>5, WriteKinds
<1>8. ASSUME NEW q \in Requests, TakeLine(q) PROVE Answering'
  <2>1. pc[q] \in Reading /\ sent' = sent /\ \A r \in Requests \ {q} : pc'[r] = pc[r]
    <3>1. pc[q] \in Reading /\ sent' = sent /\ \E p : Goto(q, p)
      BY <1>8, LineRead DEF Return, Reading
    <3> QED BY <3>1 DEF Goto, TypeOK
  <2>2. \A r \in Requests \ {q} : pc'[r] \notin Reading
    BY <2>1, OneReads
  <2>3. Remains(Whole(q))
    BY <2>1 DEF Answering
  <2>4. Remains(Whole(q))'
    <3>1. LineReady /\ ReadLine
      BY <1>8, LineRead
    <3>2. PICK n \in {1, 2} : n = LineTokens
      BY <3>1, LineTaken
    <3> QED BY <2>1, <2>3, <3>1, <3>2, LineTaken, ReadsOn
  <2> QED BY <2>2, <2>4 DEF Answering
<1>9. ASSUME NEW q \in Requests, TakeFrame(q) PROVE Answering'
  <2>1. pc[q] \in Reading /\ sent' = sent /\ \A r \in Requests \ {q} : pc'[r] = pc[r]
    <3>1. pc[q] \in Reading /\ sent' = sent /\ \E p : Goto(q, p)
      BY <1>9 DEF TakeFrame, Return, Reading
    <3> QED BY <3>1 DEF Goto, TypeOK
  <2>2. \A r \in Requests \ {q} : pc'[r] \notin Reading
    BY <2>1, OneReads
  <2>3. Remains(Whole(q))
    BY <2>1 DEF Answering
  <2>4. Remains(Whole(q))'
    <3>1. FrameReady /\ ReadFrame
      BY <1>9 DEF TakeFrame
    <3> QED BY <2>1, <2>3, <3>1, FrameTaken, FrameRest
  <2> QED BY <2>2, <2>4 DEF Answering
<1>10. ASSUME NEW q \in Requests, Drain(q) PROVE Answering'
  <2>1. pc[q] \in Reading /\ sent' = sent /\ \A r \in Requests \ {q} : pc'[r] = pc[r]
    <3>1. pc[q] \in Reading /\ sent' = sent /\ \E p : Goto(q, p)
      BY <1>10, LineDrained DEF Return, Reading
    <3> QED BY <3>1 DEF Goto, TypeOK
  <2>2. \A r \in Requests \ {q} : pc'[r] \notin Reading
    BY <2>1, OneReads
  <2>3. Remains(Whole(q))
    BY <2>1 DEF Answering
  <2>4. Remains(Whole(q))'
    <3>1. LineReady /\ ReadLine
      BY <1>10, LineDrained
    <3>2. PICK n \in {1, 2} : n = LineTokens
      BY <3>1, LineTaken
    <3> QED BY <2>1, <2>3, <3>1, <3>2, LineTaken, ReadsOn
  <2> QED BY <2>2, <2>4 DEF Answering
<1>11. ASSUME NEW q \in Requests, DrainFrame(q) PROVE Answering'
  <2>1. pc[q] \in Reading /\ sent' = sent /\ \A r \in Requests \ {q} : pc'[r] = pc[r]
    <3>1. pc[q] \in Reading /\ sent' = sent /\ \E p : Goto(q, p)
      BY <1>11 DEF DrainFrame, Return, Reading
    <3> QED BY <3>1 DEF Goto, TypeOK
  <2>2. \A r \in Requests \ {q} : pc'[r] \notin Reading
    BY <2>1, OneReads
  <2>3. Remains(Whole(q))
    BY <2>1 DEF Answering
  <2>4. Remains(Whole(q))'
    <3>1. FrameReady /\ ReadFrame
      BY <1>11 DEF DrainFrame
    <3> QED BY <2>1, <2>3, <3>1, FrameTaken, FrameRest
  <2> QED BY <2>2, <2>4 DEF Answering
<1>12. CASE RemoteSends
  <2>1. pc' = pc /\ \A q \in Requests : Remains(Whole(q)) => Remains(Whole(q))'
    BY <1>12, SendsOn DEF RemoteSends
  <2> QED BY <2>1 DEF Answering
<1> QED
  BY StepKinds, <1>1, <1>2, <1>3, <1>4, <1>5, <1>6, <1>7, <1>8, <1>9, <1>10, <1>11, <1>12

\* Nobody but the holder of the gate has an answer.
LEMMA OthersHaveNone ==
  ASSUME TypeOK, Gated, Sent, NEW q \in Requests, pc[q] \in Inside, \A r \in Requests \ {q} : sent'[r] = sent[r]
  PROVE  \A r \in Requests \ {q} : sent'[r] = <<>>
<1>1. \A r \in Requests \ {q} : pc[r] \notin Inside
  BY DEF Gated
<1> QED BY <1>1 DEF Sent, Inside, Ended

LEMMA GatheredKept ==
  ASSUME NEW q \in Requests, Gathering(q), Gathered(q), Left' = Left, sent'[q] = sent[q], got'[q] = got[q],
         pc'[q] = pc[q], result'[q] = result[q]
  PROVE  Gathering(q)' /\ Gathered(q)'
BY DEF Gathering, Gathered, Ended

\* The next token of an answer somebody still wants is the one after those gathered.
LEMMA NextToken ==
  ASSUME TypeOK, Gated, Sent, Answering, Gathers, NEW q \in Requests, sent[q] # <<>>,
         pc[q] \in {"line", "linger", "frame"}, stream # <<>>
  PROVE  /\ Len(got[q]) \in Nat /\ Len(got[q]) + 1 \in 1..Len(sent[q])
         /\ Head(stream) = [of |-> q, what |-> sent[q][Len(got[q]) + 1]]
         /\ Len(got[q]) + Left = Len(sent[q])
         /\ IsTerminatorOf(q) <=> Len(got[q]) + 1 = Len(sent[q])
         /\ Head(stream).what \in Payload <=> pc[q] = "frame"
<1>1. Gathering(q) /\ Gathered(q) /\ Remains(Whole(q))
  BY DEF Gathers, Answering, Reading
<1>2. PICK n : n = Len(got[q]) OBVIOUS
<1>3. PICK m : m = Len(sent[q]) OBVIOUS
<1>4. n \in Nat /\ m \in Nat /\ n + Left = m /\ n < m
  BY <1>1, <1>2, <1>3, LenProperties DEF Gathering, Gathered, TypeOK, Ended
<1>5. /\ Len(Whole(q)) = m /\ WellFormed(Kind[q], sent[q]) /\ DOMAIN sent[q] = 1..m
      /\ \A i \in 1..m : Whole(q)[i] = [of |-> q, what |-> sent[q][i]]
  BY <1>3, WholeIs
<1>6. Head(stream) = Whole(q)[m - Left + 1] /\ Left \in Nat
  BY <1>1, <1>5, LeftIs
<1>7. m - Left + 1 = n + 1 /\ n + 1 \in 1..m
  BY <1>4, <1>6
<1>8. Head(stream) = [of |-> q, what |-> sent[q][n + 1]]
  BY <1>5, <1>6, <1>7
<1>9. IsTerminatorOf(q) <=> n + 1 = m
  BY <1>3, <1>5, <1>7, <1>8 DEF IsTerminatorOf, WellFormed
<1>10. \A i \in 1..n : got[q][i] = [of |-> q, what |-> sent[q][i]]
  BY <1>1, <1>2 DEF Gathered, Ended
<1>11. CASE pc[q] = "frame"
  <2>1. got[q] # <<>> /\ got[q][n].what = "head"
    BY <1>1, <1>2, <1>11 DEF Gathering
  <2>2. n # 0
    BY <1>2, <2>1, EmptySeq DEF TypeOK
  <2>3. n \in 1..n /\ n \in 1..m
    BY <1>4, <2>2
  <2>4. got[q][n] = [of |-> q, what |-> sent[q][n]]
    BY <1>10, <2>3
  <2>5. sent[q][n] = "head"
    BY <2>1, <2>4
  <2>6. sent[q][n + 1] \in Payload
    BY <1>5, <2>3, <2>5 DEF WellFormed
  <2> QED BY <1>2, <1>3, <1>4, <1>7, <1>8, <1>9, <1>11, <2>6
<1>12. CASE pc[q] # "frame"
  <2>1. ASSUME sent[q][n + 1] \in Payload PROVE FALSE
    <3>1. n + 1 > 1 /\ sent[q][(n + 1) - 1] \in {"head", "badhead"}
      BY <1>5, <1>7, <2>1 DEF WellFormed
    <3>2. n \in 1..n /\ n \in 1..m /\ (n + 1) - 1 = n
      BY <1>4, <3>1
    <3>3. got[q][n] = [of |-> q, what |-> sent[q][n]]
      BY <1>10, <3>2
    <3>4. got[q][n].what \in {"head", "badhead"}
      BY <3>1, <3>2, <3>3
    <3>5. got[q] = <<>>
      BY <1>1, <1>2, <1>12, <3>4 DEF Gathering
    <3> QED BY <1>2, <3>2, <3>5, EmptySeq
  <2> QED BY <1>2, <1>3, <1>4, <1>7, <1>8, <1>9, <1>12, <2>1
<1> QED BY <1>11, <1>12

\* Another of its tokens is taken.
LEMMA TokenGathered ==
  ASSUME TypeOK, Gated, Sent, Answering, Gathers, NEW q \in Requests, sent[q] # <<>>,
         pc[q] \in {"line", "linger", "frame"}, stream # <<>>, ~ IsTerminatorOf(q),
         sent' = sent, got' = [got EXCEPT ![q] = Append(@, Head(stream))], Left' = Left - 1,
         result' = result
  PROVE  /\ got'[q] # <<>> /\ got'[q][Len(got'[q])] = Head(stream)
         /\ Len(got'[q]) + Left' = Len(sent'[q])
         /\ pc'[q] \notin Ended => Gathered(q)'
<1>1. PICK n : n = Len(got[q]) OBVIOUS
<1>2. PICK m : m = Len(sent[q]) OBVIOUS
<1>3. /\ n \in Nat /\ n + 1 \in 1..m /\ n + Left = m /\ n + 1 # m
      /\ Head(stream) = [of |-> q, what |-> sent[q][n + 1]]
  BY <1>1, <1>2, NextToken
<1>4. m \in Nat
  BY <1>2, LenProperties DEF TypeOK
<1>5. Head(stream) \in Tokens /\ Left \in Nat
  BY Heads, LenProperties DEF TypeOK, Left
<1>6. got'[q] = Append(got[q], Head(stream))
  BY DEF TypeOK
<1>7. /\ Len(got'[q]) = n + 1 /\ got'[q][n + 1] = Head(stream) /\ got'[q] \in Seq(Tokens)
      /\ \A i \in 1..n : got'[q][i] = got[q][i]
  BY <1>1, <1>5, <1>6, AppendProperties DEF TypeOK
<1>8. got'[q] # <<>>
  <2>1. Len(got'[q]) # 0
    BY <1>3, <1>7
  <2> QED BY <2>1
<1>9. \A i \in 1..(n + 1) : got'[q][i] = [of |-> q, what |-> sent[q][i]]
  BY <1>1, <1>3, <1>7 DEF Gathers, Gathered, Ended
<1>10. (n + 1) + Left' = m /\ n + 1 < m
  BY <1>3, <1>4, <1>5
<1>11. pc'[q] \notin Ended => Gathered(q)'
  BY <1>2, <1>7, <1>9, <1>10 DEF Gathered, Ended
<1> QED BY <1>2, <1>7, <1>8, <1>10, <1>11

LEMMA ResponsesGather ==
  ASSUME TypeOK, Gated, Sent, Quiet, Answering, Gathers, [Next]_vars
  PROVE  Gathers'
<1>1. ASSUME NEW q \in Requests, Outside(q) PROVE Gathers'
  <2>1. UNCHANGED <<answer, stream, sent, got>>
    BY <1>1 DEF Outside, wire
  <2>2. Left' = Left
    BY <2>1 DEF Left
  <2>3. \A r \in Requests : sent[r] # <<>> => pc'[r] = pc[r] /\ result'[r] = result[r]
    BY <1>1 DEF Outside, Sent, Goto, TypeOK, Inside, Ended, Reading
  <2> QED BY <2>1, <2>2, <2>3, GatheredKept DEF Gathers
<1>2. ASSUME NEW q \in Requests, Entering(q) PROVE Gathers'
  <2>1. UNCHANGED <<answer, stream, sent, got>>
    BY <1>2 DEF Entering, wire
  <2>2. Left' = Left
    BY <2>1 DEF Left
  <2>3. \A r \in Requests : sent[r] # <<>> => pc'[r] = pc[r] /\ result'[r] = result[r]
    BY <1>2 DEF Entering, Sent, Goto, TypeOK, Inside, Ended, Reading
  <2> QED BY <2>1, <2>2, <2>3, GatheredKept DEF Gathers
<1>3. ASSUME NEW q \in Requests, Moving(q) PROVE Gathers'
  <2>1. UNCHANGED <<answer, stream, sent, got>> /\ pc[q] \in Inside
    BY <1>3 DEF Moving, wire, Inside, Ended, Reading
  <2>2. Left' = Left
    BY <2>1 DEF Left
  <2>3. \A r \in Requests \ {q} : sent'[r] = <<>>
    BY <2>1, OthersHaveNone
  <2>4. ASSUME sent[q] # <<>> PROVE Gathering(q)' /\ Gathered(q)'
    <3>1. Gathering(q) /\ Gathered(q) /\ pc[q] \in Reading \cup Ended
      BY <2>4 DEF Gathers, Sent
    <3>2. \/ pc[q] \in {"read", "line"} /\ pc'[q] \in {"line", "drain", "linger"}
          \/ pc[q] = "finished" /\ pc'[q] = "published" /\ result'[q] = result[q]
          \/ pc'[q] = "finished" /\ result'[q] # "ok"
      BY <1>3, <3>1 DEF Moving, Goto, Return, TypeOK, Reading, Ended
    <3> QED BY <2>1, <2>2, <3>1, <3>2 DEF Gathering, Gathered, Ended
  <2> QED BY <2>1, <2>3, <2>4 DEF Gathers
<1>4. ASSUME NEW q \in Requests, Leaving(q) PROVE Gathers'
  <2>1. pc[q] \in Inside /\ sent'[q] = <<>> /\ \A r \in Requests \ {q} : sent'[r] = sent[r]
    BY <1>4 DEF Leaving, Inside, TypeOK, Ended
  <2>2. \A r \in Requests \ {q} : sent'[r] = <<>>
    BY <2>1, OthersHaveNone
  <2> QED BY <2>1, <2>2 DEF Gathers
<1>5. CASE Aside
  <2>1. UNCHANGED <<answer, stream, sent, got>>
    BY <1>5 DEF Aside, wire
  <2>2. Left' = Left
    BY <2>1 DEF Left
  <2>3. \A r \in Requests : sent[r] # <<>> => pc'[r] = pc[r] /\ result'[r] = result[r]
    BY <1>5 DEF Aside, Sent, Goto, TypeOK, Inside, Ended, Reading
  <2> QED BY <2>1, <2>2, <2>3, GatheredKept DEF Gathers
<1>6. ASSUME NEW q \in Requests, Write(q) PROVE Gathers'
  <2>1. pc[q] \in Inside /\ \A r \in Requests \ {q} : sent'[r] = sent[r]
    BY <1>6, WriteKinds DEF Inside, Ended
  <2>2. \A r \in Requests \ {q} : sent'[r] = <<>>
    BY <2>1, OthersHaveNone
  <2>3. got' = got /\ got[q] = <<>> /\ sent[q] = <<>> /\ stream' = <<>>
    BY <1>6, WriteKinds
  <2>4. CASE sent' = sent
    BY <2>2, <2>3, <2>4 DEF Gathers
  <2>5. CASE Goto(q, "read") /\ Answered(q)
    <3>1. sent'[q] \in Answers[Kind[q]] /\ Len(answer') = Len(sent'[q])
      BY <2>5, AnswerStarts
    <3>2. Len(sent'[q]) \in Nat \ {0}
      BY <3>1, AnswersAreTokens
    <3>3. pc'[q] = "read"
      BY <2>5 DEF Goto, TypeOK
    <3>4. Len(got'[q]) = 0 /\ Len(stream') = 0
      BY <2>3
    <3>5. PICK m \in Nat \ {0} : m = Len(sent'[q])
      BY <3>2
    <3>6. Left' = m
      BY <3>1, <3>4, <3>5 DEF Left
    <3>7. Gathering(q)'
      BY <2>3, <3>3, <3>4, <3>5, <3>6 DEF Gathering
    <3>8. \A i \in 1..0 : FALSE
      OBVIOUS
    <3>9. Gathered(q)'
      BY <3>3, <3>4, <3>5, <3>8 DEF Gathered, Ended
    <3> QED BY <2>2, <3>7, <3>9 DEF Gathers
  <2> QED BY <1>6, <2>4, <2>5, WriteKinds
<1>7. ASSUME NEW q \in Requests, WriteBody(q) PROVE Gathers'
  <2>1. pc[q] \in Inside /\ \A r \in Requests \ {q} : sent'[r] = sent[r]
    BY <1>7, WriteKinds DEF Inside, Ended
  <2>2. \A r \in Requests \ {q} : sent'[r] = <<>>
    BY <2>1, OthersHaveNone
  <2>3. got' = got /\ got[q] = <<>> /\ sent[q] = <<>> /\ stream' = <<>>
    BY <1>7, WriteKinds
  <2>4. CASE sent' = sent
    BY <2>2, <2>3, <2>4 DEF Gathers
  <2>5. CASE Goto(q, "read") /\ Answered(q)
    <3>1. sent'[q] \in Answers[Kind[q]] /\ Len(answer') = Len(sent'[q])
      BY <2>5, AnswerStarts
    <3>2. Len(sent'[q]) \in Nat \ {0}
      BY <3>1, AnswersAreTokens
    <3>3. pc'[q] = "read"
      BY <2>5 DEF Goto, TypeOK
    <3>4. Len(got'[q]) = 0 /\ Len(stream') = 0
      BY <2>3
    <3>5. PICK m \in Nat \ {0} : m = Len(sent'[q])
      BY <3>2
    <3>6. Left' = m
      BY <3>1, <3>4, <3>5 DEF Left
    <3>7. Gathering(q)'
      BY <2>3, <3>3, <3>4, <3>5, <3>6 DEF Gathering
    <3>8. \A i \in 1..0 : FALSE
      OBVIOUS
    <3>9. Gathered(q)'
      BY <3>3, <3>4, <3>5, <3>8 DEF Gathered, Ended
    <3> QED BY <2>2, <3>7, <3>9 DEF Gathers
  <2> QED BY <1>7, <2>4, <2>5, WriteKinds
<1>8. ASSUME NEW q \in Requests, TakeLine(q) PROVE Gathers'
  <2>1. pc[q] \in Inside /\ sent' = sent
    BY <1>8, LineRead DEF Inside, Ended, Reading
  <2>2. \A r \in Requests \ {q} : sent'[r] = <<>>
    BY <2>1, OthersHaveNone
  <2>3. ASSUME sent[q] # <<>> PROVE Gathering(q)' /\ Gathered(q)'
    <3>1. pc[q] \in {"line", "linger"} /\ LineReady /\ ReadLine /\ stream # <<>>
      BY <1>8, LineRead
    <3>2. Gathering(q) /\ Gathered(q) /\ Remains(Whole(q))
      BY <2>3, <3>1 DEF Gathers, Answering, Reading
    <3>3. CASE UNCHANGED got /\ ((\E how \in {"torn", "broken", "cancelled", "expired"} : Return(q, how)) \/ Goto(q, "drain"))
      <4>1. \/ pc'[q] = "drain"
            \/ pc'[q] = "finished" /\ result'[q] # "ok"
        BY <3>3 DEF Goto, Return, TypeOK
      <4> QED BY <2>1, <3>2, <3>3, <4>1 DEF Gathering, Gathered, Ended
    <3>4. CASE UNCHANGED got /\ IsTerminatorOf(q) /\ Return(q, "ok")
      <4>1. pc'[q] = "finished"
        BY <3>4 DEF Return, Goto, TypeOK
      <4>2. Len(got[q]) + 1 = Len(sent[q]) /\ Len(got[q]) \in Nat
        BY <2>3, <3>1, <3>4, NextToken
      <4> QED BY <2>1, <3>2, <3>4, <4>1, <4>2 DEF Gathering, Gathered, Ended
    <3>5. CASE /\ ~ IsTerminatorOf(q) /\ ~ IsBadHeader(q) /\ UNCHANGED result
               /\ got' = [got EXCEPT ![q] = Append(@, Head(stream))]
               /\ \/ IsHeader(q) /\ Goto(q, "frame")
                  \/ ~ IsHeader(q) /\ Goto(q, "read")
      <4>1. Head(stream).what \notin Payload
        BY <2>3, <3>1, NextToken
      <4>2. LineTokens = 1
        BY <3>1, <4>1, LineTaken DEF Payload
      <4>3. Left' = Left - 1
        BY <2>1, <3>1, <3>2, <4>2, LineTaken, ReadsOn
      <4>4. /\ got'[q] # <<>> /\ got'[q][Len(got'[q])] = Head(stream)
            /\ Len(got'[q]) + Left' = Len(sent'[q])
            /\ pc'[q] \notin Ended => Gathered(q)'
        BY <2>1, <2>3, <3>1, <3>5, <4>3, TokenGathered
      <4>5. pc'[q] = IF IsHeader(q) THEN "frame" ELSE "read"
        BY <3>5 DEF Goto, TypeOK
      <4>6. Head(stream).what \in {"head", "badhead"} => Kind[q] = "data"
        <5>1. /\ Head(stream).what = sent[q][Len(got[q]) + 1] /\ Len(got[q]) + 1 \in 1..Len(sent[q])
          BY <2>3, <3>1, NextToken
        <5>2. WellFormed(Kind[q], sent[q]) /\ DOMAIN sent[q] = 1..Len(sent[q])
          BY <2>3, WholeIs
        <5> QED BY <5>1, <5>2 DEF WellFormed
      <4>7. CASE IsHeader(q)
        BY <4>4, <4>5, <4>7 DEF Gathering, IsHeader, Ended
      <4>8. CASE ~ IsHeader(q)
        BY <3>5, <4>4, <4>5, <4>6, <4>8 DEF Gathering, IsHeader, IsBadHeader, Ended
      <4> QED BY <4>7, <4>8
    <3> QED BY <1>8, <3>3, <3>4, <3>5, LineRead
  <2> QED BY <2>1, <2>2, <2>3 DEF Gathers
<1>9. ASSUME NEW q \in Requests, TakeFrame(q) PROVE Gathers'
  <2>1. pc[q] \in Inside /\ sent' = sent
    BY <1>9 DEF TakeFrame, Inside, Ended, Reading
  <2>2. \A r \in Requests \ {q} : sent'[r] = <<>>
    BY <2>1, OthersHaveNone
  <2>3. ASSUME sent[q] # <<>> PROVE Gathering(q)' /\ Gathered(q)'
    <3>1. /\ pc[q] = "frame" /\ FrameReady /\ ReadFrame /\ stream # <<>> /\ result' = result
          /\ got' = [got EXCEPT ![q] = Append(@, Head(stream))]
      BY <1>9 DEF TakeFrame, FrameReady
    <3>2. Remains(Whole(q)) /\ pc'[q] = "read"
      BY <1>9, <3>1 DEF Answering, Reading, TakeFrame, Goto, TypeOK
    <3>3. Head(stream).what \in Payload /\ ~ IsTerminatorOf(q)
      <4>1. Head(stream).what \in Payload
        BY <2>3, <3>1, NextToken
      <4> QED BY <4>1 DEF Payload, IsTerminatorOf, Terminators
    <3>4. Left' = Left - 1
      BY <2>1, <3>1, <3>2, FrameRest
    <3>5. /\ got'[q] # <<>> /\ got'[q][Len(got'[q])] = Head(stream)
          /\ Len(got'[q]) + Left' = Len(sent'[q])
          /\ pc'[q] \notin Ended => Gathered(q)'
      BY <2>1, <2>3, <3>1, <3>3, <3>4, TokenGathered
    <3> QED BY <3>2, <3>3, <3>5 DEF Gathering, Payload, Ended
  <2> QED BY <2>1, <2>2, <2>3 DEF Gathers
<1>10. ASSUME NEW q \in Requests, Drain(q) PROVE Gathers'
  <2>1. pc[q] \in Inside /\ sent' = sent
    BY <1>10, LineDrained DEF Inside, Ended, Reading
  <2>2. \A r \in Requests \ {q} : sent'[r] = <<>>
    BY <2>1, OthersHaveNone
  <2>3. ASSUME sent[q] # <<>> PROVE Gathering(q)' /\ Gathered(q)'
    <3>1. /\ pc[q] = "drain" /\ UNCHANGED got /\ ctx[q] \in {"cancelled", "expired"}
          /\ Return(q, ctx[q]) \/ Goto(q, "drain") \/ Goto(q, "drainframe")
      BY <1>10, LineDrained
    <3>2. \/ pc'[q] \in {"drain", "drainframe"}
          \/ pc'[q] = "finished" /\ result'[q] # "ok"
      BY <3>1 DEF Goto, Return, TypeOK
    <3> QED BY <2>1, <2>3, <3>1, <3>2 DEF Gathers, Gathering, Gathered, Ended
  <2> QED BY <2>1, <2>2, <2>3 DEF Gathers
<1>11. ASSUME NEW q \in Requests, DrainFrame(q) PROVE Gathers'
  <2>1. pc[q] \in Inside /\ sent' = sent
    BY <1>11 DEF DrainFrame, Inside, Ended, Reading
  <2>2. \A r \in Requests \ {q} : sent'[r] = <<>>
    BY <2>1, OthersHaveNone
  <2>3. ASSUME sent[q] # <<>> PROVE Gathering(q)' /\ Gathered(q)'
    <3>1. pc'[q] = "drain" /\ UNCHANGED got
      BY <1>11 DEF DrainFrame, Goto, TypeOK
    <3> QED BY <2>1, <2>3, <3>1 DEF Gathers, Gathering, Gathered, Ended
  <2> QED BY <2>1, <2>2, <2>3 DEF Gathers
<1>12. CASE RemoteSends
  <2>1. Left' = Left /\ UNCHANGED <<sent, got, pc, result>>
    BY <1>12, SendsOn DEF RemoteSends
  <2> QED BY <2>1, GatheredKept DEF Gathers
<1> QED
  BY StepKinds, <1>1, <1>2, <1>3, <1>4, <1>5, <1>6, <1>7, <1>8, <1>9, <1>10, <1>11, <1>12

LEMMA OutcomeSteps ==
  ASSUME TypeOK, [Next]_vars, NEW q \in Requests
  PROVE  \/ outcome'[q] = outcome[q]
         \/ outcome'[q] = 1
         \/ outcome'[q] = 2 /\ Interrupt(q)
<1>1. ASSUME NEW r \in Requests, Step(r) PROVE UNCHANGED outcome \/ Publish(r)
  BY <1>1 DEF Step, Acquire, TryNoop, Enter, Write, WriteBody, WriteError, ReadOn, TakeLine, Linger,
              TakeFrame, ReadError, ReadTimeout, Drain, DrainFrame, DrainError, DrainTimeout, Release, NoopReturns
<1>2. ASSUME NEW r \in Requests, Ask(r) \/ MarkBroken(r) \/ EndContext(r) PROVE UNCHANGED outcome
  BY <1>2 DEF Ask, MarkBroken, EndContext
<1>3. CASE Close \/ CloseTransport \/ RemoteSends \/ UNCHANGED vars
  BY <1>3 DEF Close, CloseTransport, RemoteSends, vars
<1>4. ASSUME NEW r \in Requests, Publish(r) PROVE outcome'[q] \in {outcome[q], 1}
  BY <1>4 DEF Publish, TypeOK
<1>5. ASSUME NEW r \in Requests, Interrupt(r)
      PROVE  outcome'[q] = outcome[q] \/ (outcome'[q] = 2 /\ Interrupt(q))
  BY <1>5 DEF Interrupt, TypeOK
<1> QED BY <1>1, <1>2, <1>3, <1>4, <1>5 DEF Next

\* A timeout that closes the session does it while its noop has the gate.
LEMMA InterruptIsInside ==
  ASSUME TypeOK, Gated, Claims, NEW q \in Requests, Interrupt(q)
  PROVE  gate = q
<1>1. pc[q] \in Inside
  BY DEF Interrupt, Claims, TypeOK, Inside, Ended, Reading
<1> QED BY <1>1 DEF Gated

LEMMA EndsAreClaimed ==
  ASSUME TypeOK, Gated, Sent, Quiet, Claims, [Next]_vars
  PROVE  Claims'
<1>1. ASSUME NEW q \in Requests
      PROVE  /\ pc'[q] \in {"published", "released"} => pc[q] \in {"published", "released"} \/ outcome'[q] # 0
             /\ pc'[q] \in {"write", "body"} \cup Reading =>
                  pc[q] \in {"write", "body"} \cup Reading \/ ~ broken
             /\ broken => broken'
  <2>1. ASSUME NEW r \in Requests, Outside(r) PROVE <1>1!2
    BY <2>1 DEF Outside, Goto, TypeOK, Reading
  <2>2. ASSUME NEW r \in Requests, Entering(r) PROVE <1>1!2
    BY <2>2 DEF Entering, Goto, TypeOK, Reading
  <2>3. ASSUME NEW r \in Requests, Moving(r) PROVE <1>1!2
    BY <2>3 DEF Moving, Goto, Return, TypeOK, Reading
  <2>4. ASSUME NEW r \in Requests, Leaving(r) PROVE <1>1!2
    BY <2>4 DEF Leaving, Goto, TypeOK, Reading
  <2>5. CASE Aside \/ RemoteSends
    BY <2>5 DEF Aside, RemoteSends, stops
  <2>6. ASSUME NEW r \in Requests, Write(r) \/ WriteBody(r) PROVE <1>1!2
    <3>1. /\ pc[r] \in {"write", "body"} /\ ~ broken
          /\ Goto(r, "body") \/ Goto(r, "read")
      BY <2>6, WriteKinds
    <3> QED BY <3>1 DEF Goto, TypeOK, Reading
  <2>7. ASSUME NEW r \in Requests, TakeLine(r) PROVE <1>1!2
    BY <2>7, LineRead DEF Goto, Return, TypeOK, Reading
  <2>8. ASSUME NEW r \in Requests, Drain(r) PROVE <1>1!2
    BY <2>8, LineDrained DEF Goto, Return, TypeOK, Reading
  <2>9. ASSUME NEW r \in Requests, TakeFrame(r) \/ DrainFrame(r) PROVE <1>1!2
    BY <2>9 DEF TakeFrame, DrainFrame, Goto, stops, TypeOK, Reading
  <2> QED BY StepKinds, <2>1, <2>2, <2>3, <2>4, <2>5, <2>6, <2>7, <2>8, <2>9
<1>2. ASSUME NEW q \in Requests, pc'[q] \in {"published", "released"} PROVE outcome'[q] # 0
  BY <1>1, <1>2, OutcomeSteps DEF Claims
<1>3. ASSUME NEW q \in Requests, NEW r \in Requests, outcome'[q] = 2, r # q
      PROVE  broken' /\ pc'[r] \notin {"write", "body"} \cup Reading
  <2>1. CASE outcome[q] = 2
    BY <1>1, <1>3, <2>1 DEF Claims
  <2>2. CASE Interrupt(q)
    <3>1. gate = q /\ broken' /\ pc' = pc
      BY <2>2, InterruptIsInside DEF Interrupt, MarkClosed
    <3>2. pc[r] \notin Inside
      BY <1>3, <3>1 DEF Gated
    <3> QED BY <3>1, <3>2 DEF Inside, Ended
  <2> QED BY <1>3, <2>1, <2>2, OutcomeSteps
<1> QED BY <1>2, <1>3 DEF Claims

-----------------------------------------------------------------------------
(***************************************************************************)
(* The session                                                             *)
(***************************************************************************)
LEMMA Initially ==
  ASSUME Init
  PROVE  IInv
<1> USE SessionAssumption
<1>1. TypeOK
  <2>1. outcome \in [Requests -> 0..2]
    BY DEF Init
  <2>2. /\ answer \in Seq(Tokens) /\ stream \in Seq(Tokens)
        /\ sent \in [Requests -> Seq(Whats)] /\ got \in [Requests -> Seq(Tokens)]
    BY EmptySeq DEF Init
  <2> QED BY <2>1, <2>2 DEF Init, TypeOK
<1>2. Gated /\ Sent
  BY DEF Init, Gated, Sent, Inside, Ended, Reading
<1>3. Quiet /\ Answering
  BY DEF Init, Quiet, Answering, Reading
<1>4. Gathers
  BY DEF Init, Gathers
<1>5. Claims
  BY DEF Init, Claims
<1> QED BY <1>1, <1>2, <1>3, <1>4, <1>5 DEF IInv

LEMMA Steps ==
  ASSUME IInv, [Next]_vars
  PROVE  IInv'
BY TypesHold, GateHasOneHolder, AnswersAreTheirs, WireIsQuiet, RestIsOfTheReader, ResponsesGather, EndsAreClaimed DEF IInv

\* The session's invariant, however callers, remote and timers interleave.
THEOREM Invariant == Spec => []IInv
<1>1. Init => IInv
  BY Initially
<1>2. IInv /\ [Next]_vars => IInv'
  BY Steps
<1> QED BY <1>1, <1>2, PTL DEF Spec

\* Every variable keeps its type.
THEOREM TypesAreKept == Spec => []TypeOK
<1>1. IInv => TypeOK
  BY DEF IInv
<1> QED BY <1>1, Invariant, PTL

LEMMA BoundaryHolds ==
  ASSUME IInv
  PROVE  BoundaryWhenFree
<1> SUFFICES ASSUME gate = Free, ~ broken
             PROVE  answer = <<>> /\ stream = <<>> /\ unread \notin Requests
  BY DEF BoundaryWhenFree
<1>1. \A q \in Requests : pc[q] \notin Inside
  BY SessionAssumption DEF IInv, Gated
<1> QED BY <1>1 DEF IInv, Quiet, Inside, Ended, Reading

\* What was gathered is a beginning of the answer, all of it when it succeeds.
LEMMA OwnHolds ==
  ASSUME IInv
  PROVE  OwnAnswer
<1> SUFFICES ASSUME NEW q \in Requests, sent[q] # <<>>
             PROVE  IsPrefix(got[q], Own(q)) /\ (result[q] = "ok" => got[q] = Own(q))
  BY DEF OwnAnswer
<1>1. PICK n : n = Len(got[q]) OBVIOUS
<1>2. PICK m : m = Len(sent[q]) OBVIOUS
<1>3. PICK w : w = Own(q) OBVIOUS
<1>4. /\ n \in Nat /\ m \in Nat /\ n < m /\ got[q] \in Seq(Tokens)
      /\ \A i \in 1..n : got[q][i] = [of |-> q, what |-> sent[q][i]]
      /\ result[q] = "ok" => n = m - 1
  <2>1. Gathered(q) /\ got[q] \in Seq(Tokens) /\ sent[q] \in Seq(Whats)
    BY DEF IInv, Gathers, TypeOK
  <2>2. result[q] = "ok" => pc[q] \in Ended
    BY DEF IInv, Gated, Sent, Ended, Reading
  <2> QED BY <1>1, <1>2, <2>1, <2>2, LenProperties DEF Gathered, Ended
<1>5. /\ w = [i \in 1..(m - 1) |-> [of |-> q, what |-> sent[q][i]]] /\ m - 1 \in Nat
  BY <1>2, <1>3, <1>4 DEF Own
<1>6. \A i \in 1..(m - 1) : [of |-> q, what |-> sent[q][i]] \in Tokens
  <2>1. \A i \in 1..m : sent[q][i] \in Whats
    BY <1>2, ElementOfSeq DEF IInv, TypeOK
  <2> QED BY <1>4, <2>1 DEF Tokens
<1>7. w \in Seq(Tokens) /\ Len(w) = m - 1 /\ \A i \in 1..(m - 1) : w[i] = [of |-> q, what |-> sent[q][i]]
  BY <1>5, <1>6
<1>8. SubSeq(w, 1, n) = got[q]
  <2>1. \A i \in 1..n : w[i] \in Tokens
    BY <1>4, <1>6, <1>7
  <2>2. SubSeq(w, 1, n) \in Seq(Tokens) /\ Len(SubSeq(w, 1, n)) = n
    <3>1. 1 \in Int /\ n \in Int
      BY <1>4
    <3>2. SubSeq(w, 1, n) \in Seq(Tokens) /\ Len(SubSeq(w, 1, n)) = IF 1 <= n THEN n - 1 + 1 ELSE 0
      BY <2>1, <3>1, SubSeqProperties
    <3> QED BY <1>4, <3>2
  <2>3. \A i \in 1..n : SubSeq(w, 1, n)[i] = w[i]
    <3>1. 1 \in Int /\ n \in Int
      BY <1>4
    <3>2. \A i \in 1..(n - 1 + 1) : SubSeq(w, 1, n)[i] = w[1 + i - 1]
      BY <2>1, <3>1, SubSeqProperties
    <3> QED BY <1>4, <3>2
  <2>4. \A i \in 1..n : SubSeq(w, 1, n)[i] = got[q][i]
    <3>1. \A i \in 1..n : i \in 1..(m - 1)
      BY <1>4, <1>5
    <3>2. \A i \in 1..n : got[q][i] = w[i]
      BY <1>4, <1>7, <3>1
    <3> QED BY <2>3, <3>2
  <2> QED BY <1>1, <1>4, <2>2, <2>4, SeqEqual
<1>9. IsPrefix(got[q], w)
  BY <1>1, <1>4, <1>7, <1>8 DEF IsPrefix
<1>10. ASSUME result[q] = "ok" PROVE got[q] = w
  <2>1. n = m - 1
    BY <1>4, <1>10
  <2>2. Len(got[q]) = n /\ Len(w) = n
    BY <1>1, <1>7, <2>1
  <2>3. \A i \in 1..n : got[q][i] = w[i]
    BY <1>4, <1>7, <2>1
  <2> QED BY <1>4, <1>7, <2>2, <2>3, SeqEqual
<1> QED BY <1>3, <1>9, <1>10

\* Client and helper stay in step: a session in order that nobody uses has nothing
\* left to read, and every request gets its own answer, in order, whatever was
\* given up, timed out or failed before it.
THEOREM SessionStaysInStep == Spec => []InStep
<1>1. IInv => InStep
  BY BoundaryHolds, OwnHolds DEF InStep
<1> QED BY <1>1, Invariant, PTL

\* A noop's timeout closes a session only while that noop has it, and after it
\* nobody else is answered there.
THEOREM TimeoutsHitTheirOwn == Spec => TimeoutHitsItsOwn
<1>1. ASSUME IInv, [Next]_vars, NEW q \in Requests
      PROVE  /\ outcome[q] # 2 /\ outcome'[q] = 2 => gate = q
             /\ \A r \in Requests \ {q} : outcome[q] = 2 /\ result'[r] = "ok" => result[r] = "ok"
  <2>1. ASSUME outcome[q] # 2, outcome'[q] = 2 PROVE gate = q
    BY <1>1, <2>1, OutcomeSteps, InterruptIsInside DEF IInv
  <2>2. ASSUME NEW r \in Requests \ {q}, outcome[q] = 2, result'[r] = "ok", result[r] # "ok" PROVE FALSE
    <3>0. broken /\ pc[r] \notin {"write", "body"} \cup Reading
      BY <1>1, <2>2 DEF IInv, Claims
    <3>1. ASSUME NEW o \in Requests, Outside(o) \/ Entering(o) \/ Moving(o) \/ Leaving(o) PROVE FALSE
      BY <1>1, <2>2, <3>1 DEF Outside, Entering, Moving, Leaving, Return, IInv, TypeOK
    <3>2. CASE Aside \/ RemoteSends
      BY <2>2, <3>2 DEF Aside, RemoteSends
    <3>3. ASSUME NEW o \in Requests, Write(o) \/ WriteBody(o) \/ TakeFrame(o) \/ DrainFrame(o) PROVE FALSE
      BY <2>2, <3>3 DEF Write, WriteBody, TakeFrame, DrainFrame
    <3>4. ASSUME NEW o \in Requests, TakeLine(o) \/ Drain(o) PROVE FALSE
      <4>1. pc[o] \in Reading
        BY <3>4 DEF TakeLine, Drain, Reading
      <4>2. o # r
        BY <3>0, <4>1
      <4>3. UNCHANGED result \/ \E how : Return(o, how)
        BY <1>1, <3>4, LineRead, LineDrained DEF IInv
      <4> QED BY <1>1, <2>2, <4>2, <4>3 DEF Return, IInv, TypeOK
    <3> QED BY <1>1, <3>1, <3>2, <3>3, <3>4, StepKinds DEF IInv
  <2> QED BY <2>1, <2>2
<1>2. IInv /\ [Next]_vars =>
        [\A q \in Requests :
           /\ outcome[q] # 2 /\ outcome'[q] = 2 => gate = q
           /\ \A r \in Requests \ {q} : outcome[q] = 2 /\ result'[r] = "ok" => result[r] = "ok"]_vars
  BY <1>1
<1> QED BY <1>2, Invariant, PTL DEF Spec, TimeoutHitsItsOwn

-----------------------------------------------------------------------------
(***************************************************************************)
(* The pool of connections                                                 *)
(***************************************************************************)
LEMMA FreshIsUnopened == ASSUME Unopened # {} PROVE Fresh \in Sessions /\ session[Fresh] = "none"
  BY DEF Fresh, Unopened

(***************************************************************************)
(* Whose a connection is: a connection with a view, or one that somebody    *)
(* holds, keeps or closes, was dialled, and one that is held has no view.   *)
(***************************************************************************)
Owned ==
  \A c \in Conns :
    /\ refs[c] > 0 \/ connClosed[c] \/ held[c] # "nowhere" \/ entry = c \/ armed[c] \/ fired[c]
         \/ c \in shutting => Dialled(c)
    /\ held[c] # "nowhere" => refs[c] = 0

LEMMA PoolInitHolds == ASSUME PoolInit PROVE PoolTypeOK /\ Owned /\ NothingLost
  <1> USE FishAssumption DEF PoolInit
  <1>1. PoolTypeOK
    <2>1. refs \in [Conns -> 0..MaxViews] /\ held \in [Conns -> Stages]
      BY DEF Stages
    <2>2. /\ connClosed \in [Conns -> BOOLEAN] /\ armed \in [Conns -> BOOLEAN]
          /\ fired \in [Conns -> BOOLEAN] /\ exiting \in BOOLEAN
      OBVIOUS
    <2>3. /\ client \in [Conns -> Sessions \cup {NoSession}] /\ entry \in Conns \cup {NoConn}
          /\ session \in [Sessions -> {"none", "live", "broken", "closed"}]
      OBVIOUS
    <2>4. shutting \subseteq Conns /\ dials \subseteq [conn: Conns, dead: Sessions, fresh: Sessions]
      OBVIOUS
    <2> QED
      BY <2>1, <2>2, <2>3, <2>4 DEF PoolTypeOK
  <1>2. Owned /\ ParkedIsIdle
    BY DEF Owned, Dialled, ParkedIsIdle
  <1>3. NoLostConnection /\ NoLostSession
    BY DEF NoLostConnection, NoLostSession, Dialled
  <1> QED
    BY <1>1, <1>2, <1>3 DEF NothingLost

LEMMA StepTypes == ASSUME PoolTypeOK, Owned, [PoolNext]_poolVars PROVE PoolTypeOK'
  <1> USE FishAssumption DEF PoolTypeOK, Owned, Stages
  <1>1. CASE Take
    BY <1>1 DEF Take
  <1>2. CASE CloseAll
    BY <1>2 DEF CloseAll
  <1>3. ASSUME NEW c \in Conns, Dial(c) PROVE PoolTypeOK'
    BY <1>3, FreshIsUnopened DEF Dial
  <1>4. ASSUME NEW c \in Conns, StopTimer(c) PROVE PoolTypeOK'
    BY <1>4 DEF StopTimer
  <1>5. ASSUME NEW c \in Conns, HandOut(c) PROVE PoolTypeOK'
    BY <1>5 DEF HandOut
  <1>6. ASSUME NEW c \in Conns, Retain(c) PROVE PoolTypeOK'
    BY <1>6 DEF Retain
  <1>7. ASSUME NEW c \in Conns, ReleaseView(c) PROVE PoolTypeOK'
    BY <1>7 DEF ReleaseView
  <1>8. ASSUME NEW c \in Conns, Arm(c) PROVE PoolTypeOK'
    BY <1>8 DEF Arm
  <1>9. ASSUME NEW c \in Conns, Park(c) PROVE PoolTypeOK'
    BY <1>9 DEF Park
  <1>10. ASSUME NEW c \in Conns, Fire(c) PROVE PoolTypeOK'
    BY <1>10 DEF Fire
  <1>11. ASSUME NEW c \in Conns, Callback(c) PROVE PoolTypeOK'
    BY <1>11 DEF Callback
  <1>12. ASSUME NEW c \in Conns, Shutdown(c) PROVE PoolTypeOK'
    BY <1>12 DEF Shutdown
  <1>13. ASSUME NEW c \in Conns, Redial(c) PROVE PoolTypeOK'
    <2>1. Fresh \in Sessions /\ client[c] \in Sessions
      BY <1>13, FreshIsUnopened DEF Redial, Dialled
    <2>2. [conn |-> c, dead |-> client[c], fresh |-> Fresh] \in
            [conn: Conns, dead: Sessions, fresh: Sessions]
      BY <2>1
    <2>3. session' \in [Sessions -> {"none", "live", "broken", "closed"}]
      BY <1>13, <2>1 DEF Redial
    <2> QED
      BY <1>13, <2>2, <2>3 DEF Redial
  <1>14. ASSUME NEW s \in Sessions, Break(s) PROVE PoolTypeOK'
    BY <1>14 DEF Break
  <1>15. ASSUME NEW d \in dials, RedialFails(d) PROVE PoolTypeOK'
    BY <1>15 DEF RedialFails
  <1>16. ASSUME NEW d \in dials, Install(d) PROVE PoolTypeOK'
    BY <1>16 DEF Install
  <1>s. CASE UNCHANGED poolVars
    BY <1>s DEF poolVars
  <1> QED
    BY <1>1, <1>2, <1>3, <1>4, <1>5, <1>6, <1>7, <1>8, <1>9, <1>10,
       <1>11, <1>12, <1>13, <1>14, <1>15, <1>16, <1>s DEF PoolNext

LEMMA StepOwned == ASSUME PoolTypeOK, Owned, NothingLost, [PoolNext]_poolVars PROVE Owned'
  <1> USE FishAssumption DEF PoolTypeOK, Owned, Dialled, Stages, NothingLost, ParkedIsIdle
  <1>1. CASE Take
    BY <1>1 DEF Take
  <1>2. CASE CloseAll
    BY <1>2 DEF CloseAll
  <1>3. ASSUME NEW c \in Conns, Dial(c) PROVE Owned'
    BY <1>3, FreshIsUnopened DEF Dial
  <1>4. ASSUME NEW c \in Conns, StopTimer(c) PROVE Owned'
    BY <1>4 DEF StopTimer
  <1>5. ASSUME NEW c \in Conns, HandOut(c) PROVE Owned'
    BY <1>5 DEF HandOut
  <1>6. ASSUME NEW c \in Conns, Retain(c) PROVE Owned'
    BY <1>6 DEF Retain
  <1>7. ASSUME NEW c \in Conns, ReleaseView(c) PROVE Owned'
    BY <1>7 DEF ReleaseView
  <1>8. ASSUME NEW c \in Conns, Arm(c) PROVE Owned'
    BY <1>8 DEF Arm
  <1>9. ASSUME NEW c \in Conns, Park(c) PROVE Owned'
    BY <1>9 DEF Park
  <1>10. ASSUME NEW c \in Conns, Fire(c) PROVE Owned'
    BY <1>10 DEF Fire
  <1>11. ASSUME NEW c \in Conns, Callback(c) PROVE Owned'
    BY <1>11 DEF Callback
  <1>12. ASSUME NEW c \in Conns, Shutdown(c) PROVE Owned'
    BY <1>12 DEF Shutdown
  <1>13. ASSUME NEW c \in Conns, Redial(c) PROVE Owned'
    BY <1>13, FreshIsUnopened DEF Redial
  <1>14. ASSUME NEW s \in Sessions, Break(s) PROVE Owned'
    BY <1>14 DEF Break
  <1>15. ASSUME NEW d \in dials, RedialFails(d) PROVE Owned'
    BY <1>15 DEF RedialFails
  <1>16. ASSUME NEW d \in dials, Install(d) PROVE Owned'
    BY <1>16 DEF Install
  <1>s. CASE UNCHANGED poolVars
    BY <1>s DEF poolVars
  <1> QED
    BY <1>1, <1>2, <1>3, <1>4, <1>5, <1>6, <1>7, <1>8, <1>9, <1>10,
       <1>11, <1>12, <1>13, <1>14, <1>15, <1>16, <1>s DEF PoolNext

LEMMA StepParkedIsIdle == ASSUME PoolTypeOK, Owned, NothingLost, [PoolNext]_poolVars PROVE ParkedIsIdle'
  <1> USE FishAssumption DEF PoolTypeOK, Owned, Dialled, NothingLost, ParkedIsIdle
  <1>1. CASE Take
    BY <1>1 DEF Take
  <1>2. CASE CloseAll
    BY <1>2 DEF CloseAll
  <1>3. ASSUME NEW c \in Conns, Dial(c) PROVE ParkedIsIdle'
    BY <1>3, FreshIsUnopened DEF Dial
  <1>4. ASSUME NEW c \in Conns, StopTimer(c) PROVE ParkedIsIdle'
    BY <1>4 DEF StopTimer
  <1>5. ASSUME NEW c \in Conns, HandOut(c) PROVE ParkedIsIdle'
    BY <1>5 DEF HandOut
  <1>6. ASSUME NEW c \in Conns, Retain(c) PROVE ParkedIsIdle'
    BY <1>6 DEF Retain
  <1>7. ASSUME NEW c \in Conns, ReleaseView(c) PROVE ParkedIsIdle'
    BY <1>7 DEF ReleaseView
  <1>8. ASSUME NEW c \in Conns, Arm(c) PROVE ParkedIsIdle'
    BY <1>8 DEF Arm
  <1>9. ASSUME NEW c \in Conns, Park(c) PROVE ParkedIsIdle'
    BY <1>9 DEF Park
  <1>10. ASSUME NEW c \in Conns, Fire(c) PROVE ParkedIsIdle'
    BY <1>10 DEF Fire
  <1>11. ASSUME NEW c \in Conns, Callback(c) PROVE ParkedIsIdle'
    BY <1>11 DEF Callback
  <1>12. ASSUME NEW c \in Conns, Shutdown(c) PROVE ParkedIsIdle'
    BY <1>12 DEF Shutdown
  <1>13. ASSUME NEW c \in Conns, Redial(c) PROVE ParkedIsIdle'
    BY <1>13, FreshIsUnopened DEF Redial
  <1>14. ASSUME NEW s \in Sessions, Break(s) PROVE ParkedIsIdle'
    BY <1>14 DEF Break
  <1>15. ASSUME NEW d \in dials, RedialFails(d) PROVE ParkedIsIdle'
    BY <1>15 DEF RedialFails
  <1>16. ASSUME NEW d \in dials, Install(d) PROVE ParkedIsIdle'
    BY <1>16 DEF Install
  <1>s. CASE UNCHANGED poolVars
    BY <1>s DEF poolVars
  <1> QED
    BY <1>1, <1>2, <1>3, <1>4, <1>5, <1>6, <1>7, <1>8, <1>9, <1>10,
       <1>11, <1>12, <1>13, <1>14, <1>15, <1>16, <1>s DEF PoolNext

LEMMA StepNoLostConnection == ASSUME PoolTypeOK, Owned, NothingLost, [PoolNext]_poolVars PROVE NoLostConnection'
  <1> USE FishAssumption DEF PoolTypeOK, Owned, Dialled, NothingLost, ParkedIsIdle, NoLostConnection
  <1>1. CASE Take
    BY <1>1 DEF Take
  <1>2. CASE CloseAll
    BY <1>2 DEF CloseAll
  <1>3. ASSUME NEW c \in Conns, Dial(c) PROVE NoLostConnection'
    BY <1>3, FreshIsUnopened DEF Dial
  <1>4. ASSUME NEW c \in Conns, StopTimer(c) PROVE NoLostConnection'
    BY <1>4 DEF StopTimer
  <1>5. ASSUME NEW c \in Conns, HandOut(c) PROVE NoLostConnection'
    BY <1>5 DEF HandOut
  <1>6. ASSUME NEW c \in Conns, Retain(c) PROVE NoLostConnection'
    BY <1>6 DEF Retain
  <1>7. ASSUME NEW c \in Conns, ReleaseView(c) PROVE NoLostConnection'
    BY <1>7 DEF ReleaseView
  <1>8. ASSUME NEW c \in Conns, Arm(c) PROVE NoLostConnection'
    BY <1>8 DEF Arm
  <1>9. ASSUME NEW c \in Conns, Park(c) PROVE NoLostConnection'
    BY <1>9 DEF Park
  <1>10. ASSUME NEW c \in Conns, Fire(c) PROVE NoLostConnection'
    BY <1>10 DEF Fire
  <1>11. ASSUME NEW c \in Conns, Callback(c) PROVE NoLostConnection'
    BY <1>11 DEF Callback
  <1>12. ASSUME NEW c \in Conns, Shutdown(c) PROVE NoLostConnection'
    BY <1>12 DEF Shutdown
  <1>13. ASSUME NEW c \in Conns, Redial(c) PROVE NoLostConnection'
    BY <1>13, FreshIsUnopened DEF Redial
  <1>14. ASSUME NEW s \in Sessions, Break(s) PROVE NoLostConnection'
    BY <1>14 DEF Break
  <1>15. ASSUME NEW d \in dials, RedialFails(d) PROVE NoLostConnection'
    BY <1>15 DEF RedialFails
  <1>16. ASSUME NEW d \in dials, Install(d) PROVE NoLostConnection'
    BY <1>16 DEF Install
  <1>s. CASE UNCHANGED poolVars
    BY <1>s DEF poolVars
  <1> QED
    BY <1>1, <1>2, <1>3, <1>4, <1>5, <1>6, <1>7, <1>8, <1>9, <1>10,
       <1>11, <1>12, <1>13, <1>14, <1>15, <1>16, <1>s DEF PoolNext

LEMMA StepNoLostSession == ASSUME PoolTypeOK, Owned, NothingLost, [PoolNext]_poolVars PROVE NoLostSession'
  <1> USE FishAssumption DEF PoolTypeOK, Owned, Dialled, NothingLost, NoLostSession
  <1>1. CASE Take
    BY <1>1 DEF Take
  <1>2. CASE CloseAll
    BY <1>2 DEF CloseAll
  <1>3. ASSUME NEW c \in Conns, Dial(c) PROVE NoLostSession'
    BY <1>3, FreshIsUnopened DEF Dial
  <1>4. ASSUME NEW c \in Conns, StopTimer(c) PROVE NoLostSession'
    BY <1>4 DEF StopTimer
  <1>5. ASSUME NEW c \in Conns, HandOut(c) PROVE NoLostSession'
    BY <1>5 DEF HandOut
  <1>6. ASSUME NEW c \in Conns, Retain(c) PROVE NoLostSession'
    BY <1>6 DEF Retain
  <1>7. ASSUME NEW c \in Conns, ReleaseView(c) PROVE NoLostSession'
    BY <1>7 DEF ReleaseView
  <1>8. ASSUME NEW c \in Conns, Arm(c) PROVE NoLostSession'
    BY <1>8 DEF Arm
  <1>9. ASSUME NEW c \in Conns, Park(c) PROVE NoLostSession'
    BY <1>9 DEF Park
  <1>10. ASSUME NEW c \in Conns, Fire(c) PROVE NoLostSession'
    BY <1>10 DEF Fire
  <1>11. ASSUME NEW c \in Conns, Callback(c) PROVE NoLostSession'
    BY <1>11 DEF Callback
  <1>12. ASSUME NEW c \in Conns, Shutdown(c) PROVE NoLostSession'
    BY <1>12 DEF Shutdown
  <1>13. ASSUME NEW c \in Conns, Redial(c) PROVE NoLostSession'
    <2> DEFINE d == [conn |-> c, dead |-> client[c], fresh |-> Fresh]
    <2>1. Fresh \in Sessions /\ d.fresh = Fresh /\ d \in dials' /\ dials \subseteq dials'
      BY <1>13, FreshIsUnopened DEF Redial
    <2> HIDE DEF d
    <2>2. ASSUME NEW s \in Sessions, session'[s] \in {"live", "broken"}, s # Fresh
          PROVE  session[s] \in {"live", "broken"}
      BY <1>13, <2>1, <2>2 DEF Redial
    <2>3. UNCHANGED <<client, connClosed>>
      BY <1>13 DEF Redial
    <2> QED
      BY <2>1, <2>2, <2>3
  <1>14. ASSUME NEW s \in Sessions, Break(s) PROVE NoLostSession'
    BY <1>14 DEF Break
  <1>15. ASSUME NEW d \in dials, RedialFails(d) PROVE NoLostSession'
    BY <1>15 DEF RedialFails
  <1>16. ASSUME NEW d \in dials, Install(d) PROVE NoLostSession'
    BY <1>16 DEF Install
  <1>s. CASE UNCHANGED poolVars
    BY <1>s DEF poolVars
  <1> QED
    BY <1>1, <1>2, <1>3, <1>4, <1>5, <1>6, <1>7, <1>8, <1>9, <1>10,
       <1>11, <1>12, <1>13, <1>14, <1>15, <1>16, <1>s DEF PoolNext

LEMMA PoolCorrect == PoolSpec => [](PoolTypeOK /\ Owned /\ NothingLost)
  <1>1. PoolInit => PoolTypeOK /\ Owned /\ NothingLost
    BY PoolInitHolds
  <1>2. (PoolTypeOK /\ Owned /\ NothingLost) /\ [PoolNext]_poolVars => (PoolTypeOK /\ Owned /\ NothingLost)'
    BY StepTypes, StepOwned, StepParkedIsIdle, StepNoLostConnection, StepNoLostSession
    DEF NothingLost
  <1> QED
    BY <1>1, <1>2, PTL DEF PoolSpec

\* Every variable of the pool keeps its type.
THEOREM PoolTypesAreKept == PoolSpec => []PoolTypeOK
  BY PoolCorrect, PTL

\* Whatever release, take, park, the idle timer, shutdown and reconnect do
\* between their locks, no connection and no session is lost, and what is parked
\* is idle.
THEOREM NothingLostAlways == PoolSpec => []NothingLost
  BY PoolCorrect, PTL
===============================================================================
