-------------------------- MODULE ScreenCastProofs --------------------------
(***************************************************************************)
(* What the screen-cast control plane guarantees for every number of       *)
(* sessions and streams, and however many calls and messages are under     *)
(* way.                                                                    *)
(***************************************************************************)
EXTENDS ScreenCast, SequenceTheorems, FiniteSetTheorems, TLAPS

-----------------------------------------------------------------------------
(* Facts about the queues.                                                 *)

\* The elements of a queue after an element is added at the end: every queue
\* of the service is a channel or a Vec that is pushed to.
LEMMA RangeAppend ==
  ASSUME NEW T, NEW q \in Seq(T), NEW e \in T
  PROVE  Rng(Append(q, e)) = Rng(q) \cup {e}
  BY AppendProperties DEF Rng

\* The elements of a queue before and after the first one is taken.
LEMMA RangeTail ==
  ASSUME NEW T, NEW q \in Seq(T), q # <<>>
  PROVE  /\ Head(q) \in T
         /\ Tail(q) \in Seq(T)
         /\ Rng(q) = {Head(q)} \cup Rng(Tail(q))
<1>1. Head(q) \in T /\ Tail(q) \in Seq(T) /\ Len(Tail(q)) = Len(q) - 1
  BY HeadTailProperties
<1>2. \A i \in 1..Len(Tail(q)) : Tail(q)[i] = q[i + 1]
  BY HeadTailProperties
<1>3. Len(q) \in Nat \ {0} /\ Head(q) = q[1]
  BY EmptySeq, LenProperties
<1>4. \A i \in 1..Len(q) : i = 1 \/ (i - 1 \in 1..Len(Tail(q)) /\ q[i] = Tail(q)[i - 1])
  BY <1>1, <1>2, <1>3
<1>5. ASSUME NEW x \in Rng(q) PROVE x \in {Head(q)} \cup Rng(Tail(q))
  BY <1>3, <1>4 DEF Rng
<1>6. ASSUME NEW x \in Rng(Tail(q)) PROVE x \in Rng(q)
  <2>1. PICK i \in 1..Len(Tail(q)) : x = Tail(q)[i]
    BY DEF Rng
  <2>2. i + 1 \in 1..Len(q) /\ x = q[i + 1]
    BY <2>1, <1>1, <1>2, <1>3
  <2>3. QED BY <2>2 DEF Rng
<1>7. Head(q) \in Rng(q)
  BY <1>3 DEF Rng
<1>8. QED BY <1>1, <1>5, <1>6, <1>7

\* The elements of a queue are of the queue's type.
LEMMA RangeType ==
  ASSUME NEW T, NEW q \in Seq(T)
  PROVE  /\ Rng(q) \subseteq T
         /\ q = <<>> <=> Rng(q) = {}
<1>1. Rng(q) \subseteq T
  BY ElementOfSeq DEF Rng
<1>2. q # <<>> => q[1] \in Rng(q)
  BY EmptySeq, LenProperties DEF Rng
<1>3. q = <<>> => Rng(q) = {}
  BY EmptySeq DEF Rng
<1>4. QED BY <1>1, <1>2, <1>3

\* The messages of the channel are told apart by their kind and content.
LEMMA Messages ==
  /\ \A x \in Stream : StartMsg(x) \in Message
  /\ \A s \in Session : StopMsg(s) \in Message /\ StopMsg(s) \in PwMessage
  /\ FatalMsg \in PwMessage
  /\ \A x, y : StartMsg(x) = StartMsg(y) => x = y
  /\ \A r, s : StopMsg(r) = StopMsg(s) => r = s
  /\ \A x, s : StartMsg(x) # StopMsg(s)
  /\ \A m \in Message : m.kind = "start" =>
       m.stream \in Stream /\ m = StartMsg(m.stream)
  /\ \A m \in Message : m.kind = "stop" =>
       m.session \in Session /\ m = StopMsg(m.session)
  /\ \A m \in PwMessage : m.kind = "stop" => m.session \in Session
<1>1. \A x, y : StartMsg(x) = StartMsg(y) => x = y
  <2>1. \A x : StartMsg(x).stream = x
    BY DEF StartMsg
  <2>2. QED BY <2>1
<1>2. \A r, s : StopMsg(r) = StopMsg(s) => r = s
  <2>1. \A s : StopMsg(s).session = s
    BY DEF StopMsg
  <2>2. QED BY <2>1
<1>3. \A x, s : StartMsg(x) # StopMsg(s)
  <2>1. \A x, s : StartMsg(x).kind = "start" /\ StopMsg(s).kind = "stop"
    BY DEF StartMsg, StopMsg
  <2>2. QED BY <2>1
<1>4. /\ \A x \in Stream : StartMsg(x) \in Message
      /\ \A s \in Session : StopMsg(s) \in Message /\ StopMsg(s) \in PwMessage
      /\ FatalMsg \in PwMessage
  BY DEF Message, PwMessage
<1>5. /\ \A x : StartMsg(x).kind = "start" /\ StartMsg(x).stream = x
      /\ \A s : StopMsg(s).kind = "stop" /\ StopMsg(s).session = s
      /\ FatalMsg.kind = "fatal"
  BY DEF StartMsg, StopMsg, FatalMsg
<1>6. ASSUME NEW m \in Message, m.kind = "start"
      PROVE  m.stream \in Stream /\ m = StartMsg(m.stream)
  <2>1. PICK x \in Stream : m = StartMsg(x)
    BY <1>5, <1>6 DEF Message
  <2>2. QED BY <2>1, <1>5
<1>7. ASSUME NEW m \in Message, m.kind = "stop"
      PROVE  m.session \in Session /\ m = StopMsg(m.session)
  <2>1. PICK s \in Session : m = StopMsg(s)
    BY <1>5, <1>7 DEF Message
  <2>2. QED BY <2>1, <1>5
<1>8. ASSUME NEW m \in PwMessage, m.kind = "stop"
      PROVE  m.session \in Session
  <2>1. PICK s \in Session : m = StopMsg(s)
    BY <1>5, <1>8 DEF PwMessage
  <2>2. QED BY <2>1, <1>5
<1>9. QED
  BY <1>1, <1>2, <1>3, <1>4, <1>6, <1>7, <1>8

\* An element occurs once in a queue; a queue holds nothing twice.
OnceIn(q, e) == \A i, j \in 1..Len(q) : q[i] = e /\ q[j] = e => i = j
NoDup(q) == \A e \in Rng(q) : OnceIn(q, e)

\* Adding an element at the end keeps another one unique, and is unique if it
\* was not there.
LEMMA OnceAppend ==
  ASSUME NEW T, NEW q \in Seq(T), NEW e \in T, NEW f, OnceIn(q, f),
         e # f \/ f \notin Rng(q)
  PROVE  OnceIn(Append(q, e), f)
<1>1. /\ Len(Append(q, e)) = Len(q) + 1
      /\ \A i \in 1..Len(q) : Append(q, e)[i] = q[i]
      /\ Append(q, e)[Len(q) + 1] = e /\ Len(q) \in Nat
  BY AppendProperties, LenProperties
<1>2. \A i \in 1..Len(q) + 1 : i \in 1..Len(q) \/ i = Len(q) + 1
  BY <1>1
<1>3. QED BY <1>1, <1>2 DEF OnceIn, Rng

\* Taking the first element keeps the others unique, and none of it is left.
LEMMA OnceTail ==
  ASSUME NEW T, NEW q \in Seq(T), q # <<>>, NEW f, OnceIn(q, f)
  PROVE  /\ OnceIn(Tail(q), f)
         /\ Head(q) = f => f \notin Rng(Tail(q))
<1>1. /\ Len(Tail(q)) = Len(q) - 1 /\ Len(q) \in Nat \ {0} /\ Head(q) = q[1]
      /\ \A i \in 1..Len(Tail(q)) : Tail(q)[i] = q[i + 1] /\ i + 1 \in 1..Len(q)
  BY HeadTailProperties, EmptySeq, LenProperties
<1>2. OnceIn(Tail(q), f)
  <2>1. SUFFICES ASSUME NEW i \in 1..Len(Tail(q)), NEW j \in 1..Len(Tail(q)),
                        Tail(q)[i] = f, Tail(q)[j] = f
                 PROVE  i = j
    BY DEF OnceIn
  <2>2. i + 1 = j + 1
    BY <1>1, <2>1 DEF OnceIn
  <2>3. QED BY <2>2, <1>1
<1>3. ASSUME Head(q) = f, f \in Rng(Tail(q)) PROVE FALSE
  <2>1. PICK i \in 1..Len(Tail(q)) : Tail(q)[i] = f
    BY <1>3 DEF Rng
  <2>2. 1 = i + 1
    BY <1>1, <1>3, <2>1 DEF OnceIn
  <2>3. QED BY <2>2, <1>1
<1>4. QED BY <1>2, <1>3

\* Wherever e stands in a queue, f stands behind it.
Behind(q, e, f) == \A i \in 1..Len(q) : q[i] = e => \E j \in 1..Len(q) : j > i /\ q[j] = f

\* Adding another element keeps what is behind e, and adding f provides it.
LEMMA BehindAppend ==
  ASSUME NEW T, NEW q \in Seq(T), NEW g \in T, NEW e, NEW f, g # e,
         Behind(q, e, f) \/ g = f
  PROVE  Behind(Append(q, g), e, f)
<1>1. /\ Len(Append(q, g)) = Len(q) + 1
      /\ \A i \in 1..Len(q) : Append(q, g)[i] = q[i]
      /\ Append(q, g)[Len(q) + 1] = g /\ Len(q) \in Nat
  BY AppendProperties, LenProperties
<1>2. SUFFICES ASSUME NEW i \in 1..Len(q) + 1, Append(q, g)[i] = e
               PROVE  \E j \in 1..Len(q) + 1 : j > i /\ Append(q, g)[j] = f
  BY <1>1 DEF Behind
<1>3. i \in 1..Len(q) /\ q[i] = e
  BY <1>1, <1>2
<1>4. CASE g = f
  BY <1>1, <1>3, <1>4
<1>5. CASE Behind(q, e, f)
  <2>1. PICK j \in 1..Len(q) : j > i /\ q[j] = f
    BY <1>3, <1>5 DEF Behind
  <2>2. j \in 1..Len(q) + 1 /\ Append(q, g)[j] = f
    BY <1>1, <2>1
  <2>3. QED BY <2>1, <2>2
<1>6. QED BY <1>4, <1>5

\* What is behind e stays behind it as the queue is taken from, and is still
\* queued when e is taken.
LEMMA BehindTail ==
  ASSUME NEW T, NEW q \in Seq(T), q # <<>>, NEW e, NEW f, Behind(q, e, f)
  PROVE  /\ Behind(Tail(q), e, f)
         /\ Head(q) = e => f \in Rng(Tail(q))
<1>1. /\ Len(Tail(q)) = Len(q) - 1 /\ Len(q) \in Nat \ {0} /\ Head(q) = q[1]
      /\ \A i \in 1..Len(Tail(q)) : Tail(q)[i] = q[i + 1] /\ i + 1 \in 1..Len(q)
  BY HeadTailProperties, EmptySeq, LenProperties
<1>2. ASSUME NEW i \in 1..Len(q), q[i] = e
      PROVE  \E j \in 1..Len(Tail(q)) : j + 1 > i /\ Tail(q)[j] = f
  <2>1. PICK k \in 1..Len(q) : k > i /\ q[k] = f
    BY <1>2 DEF Behind
  <2>2. k - 1 \in 1..Len(Tail(q)) /\ (k - 1) + 1 = k
    BY <1>1, <2>1
  <2>3. Tail(q)[k - 1] = f /\ (k - 1) + 1 > i
    BY <1>1, <2>1, <2>2
  <2>4. QED BY <2>2, <2>3
<1>3. Behind(Tail(q), e, f)
  <2>1. SUFFICES ASSUME NEW i \in 1..Len(Tail(q)), Tail(q)[i] = e
                 PROVE  \E j \in 1..Len(Tail(q)) : j > i /\ Tail(q)[j] = f
    BY DEF Behind
  <2>2. i + 1 \in 1..Len(q) /\ q[i + 1] = e
    BY <1>1, <2>1
  <2>3. PICK j \in 1..Len(Tail(q)) : j + 1 > i + 1 /\ Tail(q)[j] = f
    BY <1>2, <2>2
  <2>4. QED BY <1>1, <2>3
<1>4. Head(q) = e => f \in Rng(Tail(q))
  <2>1. 1 \in 1..Len(q)
    BY <1>1
  <2>2. QED BY <1>1, <1>2, <2>1 DEF Rng
<1>5. QED BY <1>3, <1>4

\* With e in the queue, f is in it too.
LEMMA BehindRange ==
  ASSUME NEW q, NEW e, NEW f, Behind(q, e, f), e \in Rng(q)
  PROVE  f \in Rng(q)
  BY DEF Behind, Rng

-----------------------------------------------------------------------------
(* Types.  The main thread stops the session a cast belongs to, so the     *)
(* type of its variables rests on every stream that is queued or cast      *)
(* having been recorded.                                                   *)

Recorded ==
  /\ \A s \in Session : \A x \in Rng(streams[s]) : owner[x] = s
  /\ \A x \in Rng(rest) : owner[x] \in Session
  /\ \A x \in Stream : StartMsg(x) \in Rng(toState) => owner[x] \in Session
  /\ \A x \in casts : owner[x] \in Session

TypeInv == TypeOK /\ Recorded

\* Enter, and stop_cast around it, keep the variables' types.
LEMMA StopCastTypes ==
  ASSUME TypeInv, NEW s \in Session, StopCast(s)
  PROVE  /\ stopPc' \in [Session ->
              {"idle", "closing", "sending", "taking", "removing", "done"}]
         /\ stopper' \in [Session -> {"nobody", "dbus", "main"}]
         /\ taken' \in [Session -> Seq(Stream)]
         /\ left' \in [Session -> Seq(Stream)]
         /\ blocked' \in Session \cup {NoSession}
         /\ casts' \subseteq casts
  BY DEF TypeInv, TypeOK, StopCast, Enter, stopVars

\* The D-Bus thread's steps keep the types.
LEMMA DbusTypes ==
  ASSUME TypeInv, ClientStep \/ CallStep \/ StartStep
  PROVE  TypeInv'
<1>1. CASE ClientStep
  <2>1. ASSUME NEW s \in Session, CreateSession(s) PROVE TypeInv'
    BY <2>1 DEF TypeInv, TypeOK, Recorded, CreateSession, stopVars, mainVars
  <2>2. ASSUME NEW c \in Call, Dispatch(c) PROVE TypeInv'
    BY <2>2 DEF TypeInv, TypeOK, Recorded, Dispatch, stopVars, mainVars
  <2>3. QED BY <1>1, <2>1, <2>2 DEF ClientStep
<1>2. CASE CallStep
  <2>1. ASSUME NEW s \in Session, NEW x \in Stream, Record(s, x) PROVE TypeInv'
    <3>1. TypeOK'
      <4>1. streams' \in [Session -> Seq(Stream)]
        BY <2>1, AppendProperties DEF TypeInv, TypeOK, Record
      <4>2. QED
        BY <2>1, <4>1 DEF TypeInv, TypeOK, Record, BeginCall, stopVars, mainVars
    <3>2. \A r \in Session : Rng(streams'[r]) =
            IF r = s THEN Rng(streams[r]) \cup {x} ELSE Rng(streams[r])
      <4>1. Rng(Append(streams[s], x)) = Rng(streams[s]) \cup {x}
        BY RangeAppend DEF TypeInv, TypeOK
      <4>2. QED BY <2>1, <4>1 DEF TypeInv, TypeOK, Record
    <3>3. /\ \A y \in Stream \ {x} : owner'[y] = owner[y]
          /\ owner'[x] = s /\ owner[x] = NoSession
          /\ UNCHANGED <<rest, toState, casts>>
      BY <2>1 DEF TypeInv, TypeOK, Record, mainVars
    <3>4. /\ \A r \in Session : Rng(streams[r]) \subseteq Stream
          /\ Rng(rest) \subseteq Stream
      BY RangeType DEF TypeInv, TypeOK
    <3>5. \A y \in Stream : owner[y] \in Session => owner'[y] = owner[y]
      BY <3>3, ConstantsAssumption
    <3>6. \A r \in Session : \A y \in Rng(streams'[r]) : owner'[y] = r
      <4>1. \A r \in Session : \A y \in Rng(streams[r]) : owner[y] = r /\ owner'[y] = r
        BY <3>4, <3>5 DEF TypeInv, Recorded
      <4>2. SUFFICES ASSUME NEW r \in Session, NEW y \in Rng(streams'[r]) PROVE owner'[y] = r
        OBVIOUS
      <4>3. CASE y \in Rng(streams[r])
        BY <4>1, <4>3
      <4>4. CASE y \notin Rng(streams[r])
        BY <3>2, <3>3, <4>4
      <4>5. QED BY <4>3, <4>4
    <3>7. /\ \A y \in Rng(rest) : owner'[y] \in Session
          /\ \A y \in Stream : StartMsg(y) \in Rng(toState) => owner'[y] \in Session
          /\ \A y \in casts : owner'[y] \in Session
      BY <3>4, <3>5 DEF TypeInv, TypeOK, Recorded
    <3>8. QED BY <3>1, <3>3, <3>6, <3>7 DEF TypeInv, Recorded
  <2>2. ASSUME NEW s \in Session, RecordFails(s) PROVE TypeInv'
    BY <2>2 DEF TypeInv, TypeOK, Recorded, RecordFails, BeginCall, stopVars, mainVars
  <2>3. ASSUME NEW s \in Session, StartCall(s) PROVE TypeInv'
    BY <2>3 DEF TypeInv, TypeOK, Recorded, StartCall, BeginCall, stopVars, mainVars
  <2>4. ASSUME NEW s \in Session, StopCall(s) PROVE TypeInv'
    BY <2>4 DEF TypeInv, TypeOK, Recorded, StopCall, BeginCall, Enter, stopVars, mainVars
  <2>5. QED BY <1>2, <2>1, <2>2, <2>3, <2>4 DEF CallStep
<1>3. CASE StartStep
  <2>1. ASSUME StreamStart PROVE TypeInv'
    <3>1. /\ Head(rest) \in Stream /\ rest' \in Seq(Stream)
          /\ Rng(rest) = {Head(rest)} \cup Rng(rest')
      BY <2>1, RangeTail DEF TypeInv, TypeOK, StreamStart
    <3>2. /\ toState' \in Seq(Message)
          /\ Rng(toState') \subseteq Rng(toState) \cup {StartMsg(Head(rest))}
      <4>1. StartMsg(Head(rest)) \in Message /\ toState \in Seq(Message)
        BY <3>1, Messages DEF TypeInv, TypeOK
      <4>2. /\ Append(toState, StartMsg(Head(rest))) \in Seq(Message)
            /\ Rng(Append(toState, StartMsg(Head(rest)))) =
                 Rng(toState) \cup {StartMsg(Head(rest))}
        BY <4>1, RangeAppend, AppendProperties
      <4>3. QED BY <2>1, <4>1, <4>2 DEF StreamStart
    <3>3. UNCHANGED <<owner, streams, casts>>
      BY <2>1 DEF StreamStart, mainVars
    <3>4. Recorded'
      BY <3>1, <3>2, <3>3, Messages DEF TypeInv, Recorded
    <3>5. TypeOK'
      BY <2>1, <3>1, <3>2 DEF TypeInv, TypeOK, StreamStart, stopVars, mainVars
    <3>6. QED BY <3>4, <3>5 DEF TypeInv
  <2>2. ASSUME StartReturns PROVE TypeInv'
    BY <2>2 DEF TypeInv, TypeOK, Recorded, StartReturns, stopVars, mainVars
  <2>3. QED BY <1>3, <2>1, <2>2 DEF StartStep
<1>4. QED BY <1>1, <1>2, <1>3

\* The steps of Session::stop keep the types, on either thread.
LEMMA StopTypes ==
  ASSUME TypeInv, NEW s \in Session, StopStep(s)
  PROVE  TypeInv'
<1>1. ASSUME StopClosed(s) PROVE TypeInv'
  BY <1>1 DEF TypeInv, TypeOK, Recorded, StopClosed, dbusVars, mainVars
<1>2. ASSUME StopSend(s) PROVE TypeInv'
  <2>1. StopMsg(s) \in Message /\ toState \in Seq(Message)
    BY Messages DEF TypeInv, TypeOK
  <2>2. /\ toState' \in Seq(Message)
        /\ Rng(toState') = Rng(toState) \cup {StopMsg(s)}
    BY <1>2, <2>1, RangeAppend, AppendProperties DEF StopSend
  <2>3. UNCHANGED <<owner, streams, rest, casts>>
    BY <1>2 DEF StopSend, dbusVars, mainVars
  <2>4. Recorded'
    BY <2>2, <2>3, Messages DEF TypeInv, Recorded
  <2>5. TypeOK'
    BY <1>2, <2>2 DEF TypeInv, TypeOK, StopSend, dbusVars, mainVars
  <2>6. QED BY <2>4, <2>5 DEF TypeInv
<1>3. ASSUME StopTake(s) PROVE TypeInv'
  <2>1. Rng(<<>>) = {}
    BY EmptySeq DEF Rng
  <2>2. QED
    BY <1>3, <2>1 DEF TypeInv, TypeOK, Recorded, StopTake, mainVars
<1>4. ASSUME StopRemoveStream(s) PROVE TypeInv'
  <2>1. Tail(left[s]) \in Seq(Stream)
    BY <1>4, HeadTailProperties DEF TypeInv, TypeOK, StopRemoveStream
  <2>2. QED
    BY <1>4, <2>1 DEF TypeInv, TypeOK, Recorded, StopRemoveStream, mainVars
<1>5. ASSUME StopUnregister(s) PROVE TypeInv'
  BY <1>5 DEF TypeInv, TypeOK, Recorded, StopUnregister
<1>6. QED BY <1>1, <1>2, <1>3, <1>4, <1>5 DEF StopStep

\* The main thread's steps keep the types.
LEMMA MainTypes ==
  ASSUME TypeInv, MainStep \/ PwStep
  PROVE  TypeInv'
<1>1. CASE HandleStartCast
  <2> DEFINE x == Head(toState).stream
  <2>1. /\ toState' \in Seq(Message)
        /\ Rng(toState) = {Head(toState)} \cup Rng(toState')
        /\ x \in Stream /\ Head(toState) = StartMsg(x)
    BY <1>1, RangeTail, Messages DEF TypeInv, TypeOK, HandleStartCast
  <2>2. owner[x] \in Session
    BY <2>1 DEF TypeInv, Recorded
  <2>3. CASE StartSucceeds(x)
    BY <1>1, <2>1, <2>2, <2>3
       DEF TypeInv, TypeOK, Recorded, HandleStartCast, StartSucceeds, dbusVars, stopVars
  <2>4. CASE StartFails(x)
    <3>1. StopCast(owner[x]) /\ pipewire' \in BOOLEAN
      BY <2>4 DEF StartFails, TypeInv, TypeOK
    <3>2. QED
      BY <1>1, <2>1, <2>2, <3>1, StopCastTypes
         DEF TypeInv, TypeOK, Recorded, HandleStartCast, dbusVars
  <2>5. QED BY <1>1, <2>3, <2>4 DEF HandleStartCast
<1>2. CASE HandleStopCast
  <2>1. /\ toState' \in Seq(Message)
        /\ Rng(toState) = {Head(toState)} \cup Rng(toState')
        /\ Head(toState).session \in Session
    BY <1>2, RangeTail, Messages DEF TypeInv, TypeOK, HandleStopCast
  <2>2. QED
    BY <1>2, <2>1, StopCastTypes DEF TypeInv, TypeOK, Recorded, HandleStopCast, dbusVars
<1>3. CASE HandlePwStop
  <2>1. fromPw' \in Seq(PwMessage) /\ Head(fromPw).session \in Session
    BY <1>3, RangeTail, Messages DEF TypeInv, TypeOK, HandlePwStop
  <2>2. QED
    BY <1>3, <2>1, StopCastTypes DEF TypeInv, TypeOK, Recorded, HandlePwStop, dbusVars
<1>4. CASE HandlePwFatal
  <2>1. fromPw' \in Seq(PwMessage)
    BY <1>4, RangeTail DEF TypeInv, TypeOK, HandlePwFatal
  <2>2. /\ UNCHANGED <<dbusVars, stopVars, toState, casts, blocked>>
        /\ pipewire' = FALSE /\ pending' \subseteq SessionsCast
    BY <1>4 DEF HandlePwFatal
  <2>3. SessionsCast \subseteq Session
    BY DEF SessionsCast, TypeInv, Recorded
  <2>4. Recorded'
    BY <2>2 DEF TypeInv, Recorded, dbusVars
  <2>5. TypeOK'
    BY <2>1, <2>2, <2>3 DEF TypeInv, TypeOK, dbusVars, stopVars
  <2>6. QED BY <2>4, <2>5 DEF TypeInv
<1>5. CASE StopNextPending
  BY <1>5, StopCastTypes DEF TypeInv, TypeOK, Recorded, StopNextPending, dbusVars
<1>6. CASE PwRequestsStop
  <2>1. PICK s \in SessionsCast : fromPw' = Append(fromPw, StopMsg(s))
    BY <1>6 DEF PwRequestsStop
  <2>2. s \in Session
    BY DEF SessionsCast, TypeInv, Recorded
  <2>3. fromPw' \in Seq(PwMessage)
    BY <2>1, <2>2, Messages, AppendProperties DEF TypeInv, TypeOK
  <2>4. QED
    BY <1>6, <2>3 DEF TypeInv, TypeOK, Recorded, PwRequestsStop, dbusVars, stopVars, mainVars
<1>7. CASE PwFails
  <2>1. fromPw' \in Seq(PwMessage)
    BY <1>7, Messages, AppendProperties DEF TypeInv, TypeOK, PwFails
  <2>2. QED
    BY <1>7, <2>1 DEF TypeInv, TypeOK, Recorded, PwFails, dbusVars, stopVars, mainVars
<1>8. CASE RenderFails
  BY <1>8 DEF TypeInv, TypeOK, Recorded, RenderFails, SessionsCast, dbusVars, stopVars
<1>9. QED
  BY <1>1, <1>2, <1>3, <1>4, <1>5, <1>6, <1>7, <1>8 DEF MainStep, PwStep

\* The variables keep their types, and every stream that is queued, cast or
\* about to be started belongs to a session.
THEOREM TypeCorrect == Spec => []TypeInv
<1>1. Init => TypeInv
  <2> SUFFICES ASSUME Init PROVE TypeInv
    OBVIOUS
  <2>1. Rng(<<>>) = {} /\ \A T : <<>> \in Seq(T)
    BY EmptySeq DEF Rng
  <2>2. TypeOK
    BY <2>1 DEF Init, TypeOK
  <2>3. Recorded
    BY <2>1 DEF Init, Recorded
  <2>4. QED BY <2>2, <2>3 DEF TypeInv
<1>2. TypeInv /\ [Next]_vars => TypeInv'
  <2> SUFFICES ASSUME TypeInv, [Next]_vars PROVE TypeInv'
    OBVIOUS
  <2>1. CASE UNCHANGED vars
    BY <2>1 DEF TypeInv, TypeOK, Recorded, vars, dbusVars, stopVars, mainVars
  <2>2. CASE Next
    BY <2>2, DbusTypes, StopTypes, MainTypes DEF Next
  <2>3. QED BY <2>1, <2>2
<1>3. QED BY <1>1, <1>2, PTL DEF Spec

\* The type invariant the model is checked against.
THEOREM TypesHold == Spec => []TypeOK
  BY TypeCorrect, PTL DEF TypeInv

-----------------------------------------------------------------------------
(* Session::stop runs once.                                                *)

\* stop_cast begins the stop of a session that is registered and not stopped,
\* and of no other.
LEMMA StopCastSteps ==
  ASSUME TypeOK, NEW s \in Session, StopCast(s)
  PROVE  /\ UNCHANGED <<taken, left>>
         /\ \A r \in Session :
              \/ stopPc'[r] = stopPc[r] /\ stopper'[r] = stopper[r]
              \/ r \in registered /\ ~Stopped(r)
                 /\ stopPc'[r] = "closing" /\ stopper'[r] = "main"
<1>1. CASE s \in registered
  BY <1>1 DEF TypeOK, StopCast, Enter, Stopped, stopVars
<1>2. CASE s \notin registered
  BY <1>2 DEF StopCast, stopVars
<1>3. QED BY <1>1, <1>2

\* The message HandleStartCast takes asks for a stream some session recorded.
LEMMA StartCastMessage ==
  ASSUME TypeInv, HandleStartCast
  PROVE  LET x == Head(toState).stream
         IN  /\ x \in Stream /\ owner[x] \in Session
             /\ Head(toState) = StartMsg(x)
             /\ toState' = Tail(toState) /\ toState # <<>>
             /\ StartSucceeds(x) \/ StartFails(x)
<1>1. /\ Head(toState).stream \in Stream /\ Head(toState) \in Rng(toState)
      /\ Head(toState) = StartMsg(Head(toState).stream)
  BY RangeTail, Messages DEF TypeInv, TypeOK, HandleStartCast
<1>2. QED BY <1>1 DEF HandleStartCast, TypeInv, Recorded

\* The main loop leaves the D-Bus objects alone and moves a session's stop
\* only by beginning it.
LEMMA MainStepsStop ==
  ASSUME TypeInv, MainStep \/ PwStep
  PROVE  /\ UNCHANGED <<dbusVars, taken, left>>
         /\ \A r \in Session :
              \/ stopPc'[r] = stopPc[r] /\ stopper'[r] = stopper[r]
              \/ r \in registered /\ ~Stopped(r)
                 /\ stopPc'[r] = "closing" /\ stopper'[r] = "main"
<1> DEFINE Moves ==
      /\ UNCHANGED <<taken, left>>
      /\ \A r \in Session :
           \/ stopPc'[r] = stopPc[r] /\ stopper'[r] = stopper[r]
           \/ r \in registered /\ ~Stopped(r)
              /\ stopPc'[r] = "closing" /\ stopper'[r] = "main"
<1>1. ASSUME HandleStartCast PROVE Moves
  <2>1. PICK x \in Stream :
          (StartSucceeds(x) \/ StartFails(x)) /\ owner[x] \in Session
    BY <1>1, StartCastMessage
  <2>2. CASE StartSucceeds(x)
    BY <2>2 DEF StartSucceeds, stopVars
  <2>3. CASE StartFails(x)
    BY <2>1, <2>3, StopCastSteps DEF TypeInv, StartFails
  <2>4. QED BY <2>1, <2>2, <2>3
<1>2. ASSUME HandleStopCast PROVE Moves
  <2>1. Head(toState).session \in Session
    BY <1>2, RangeTail, Messages DEF TypeInv, TypeOK, HandleStopCast
  <2>2. QED BY <1>2, <2>1, StopCastSteps DEF TypeInv, HandleStopCast
<1>3. ASSUME HandlePwStop PROVE Moves
  <2>1. Head(fromPw).session \in Session
    BY <1>3, RangeTail, Messages DEF TypeInv, TypeOK, HandlePwStop
  <2>2. QED BY <1>3, <2>1, StopCastSteps DEF TypeInv, HandlePwStop
<1>4. ASSUME HandlePwFatal PROVE Moves
  BY <1>4 DEF HandlePwFatal, stopVars
<1>5. ASSUME StopNextPending PROVE Moves
  BY <1>5, StopCastSteps DEF TypeInv, TypeOK, StopNextPending
<1>6. ASSUME PwStep PROVE Moves
  BY <1>6 DEF PwStep, PwRequestsStop, PwFails, RenderFails, stopVars
<1>7. UNCHANGED dbusVars
  BY DEF MainStep, PwStep, HandleStartCast, HandleStopCast, HandlePwStop,
         HandlePwFatal, StopNextPending, PwRequestsStop, PwFails, RenderFails
<1>8. QED
  BY <1>1, <1>2, <1>3, <1>4, <1>5, <1>6, <1>7 DEF MainStep

\* A stop that has begun is moved by its own steps alone, whatever calls and
\* messages ask for another one.
LEMMA BegunStopStays ==
  ASSUME TypeInv, [Next]_vars, NEW r \in Session, Stopped(r), ~StopStep(r)
  PROVE  stopPc'[r] = stopPc[r] /\ stopper'[r] = stopper[r]
<1> DEFINE Stays == stopPc'[r] = stopPc[r] /\ stopper'[r] = stopper[r]
<1>1. CASE UNCHANGED vars
  BY <1>1 DEF vars, stopVars
<1>2. CASE ClientStep
  BY <1>2 DEF ClientStep, CreateSession, Dispatch, stopVars
<1>3. CASE CallStep
  <2>1. ASSUME NEW s \in Session, StopCall(s) PROVE Stays
    BY <2>1 DEF StopCall, Enter, Stopped, stopVars, TypeInv, TypeOK
  <2>2. QED
    BY <1>3, <2>1 DEF CallStep, Record, RecordFails, StartCall, stopVars
<1>4. CASE StartStep
  BY <1>4 DEF StartStep, StreamStart, StartReturns, stopVars
<1>5. CASE \E s \in Session : StopStep(s)
  <2>1. PICK s \in Session : StopStep(s) /\ s # r
    BY <1>5
  <2>2. QED
    BY <2>1 DEF TypeInv, TypeOK, StopStep, StopClosed, StopSend, StopTake,
                StopRemoveStream, StopUnregister
<1>6. CASE MainStep \/ PwStep
  BY <1>6, MainStepsStop
<1>7. QED
  BY <1>1, <1>2, <1>3, <1>4, <1>5, <1>6 DEF Next

\* The closed signal of a session is emitted at most once: neither thread ever
\* takes a stop that has begun back to its beginning.
THEOREM ClosedAtMostOnce == Spec => ClosedOnce
<1>1. ASSUME TypeInv, [Next]_vars
      PROVE  \A s \in Session : (Stopped(s) /\ stopPc'[s] = "closing") =>
               (stopPc[s] = "closing" /\ stopper'[s] = stopper[s])
  <2> TAKE s \in Session
  <2>1. CASE StopStep(s)
    BY <1>1, <2>1 DEF TypeInv, TypeOK, StopStep, StopClosed, StopSend, StopTake,
                StopRemoveStream, StopUnregister
  <2>2. CASE ~StopStep(s)
    BY <1>1, <2>2, BegunStopStays
  <2>3. QED BY <2>1, <2>2
<1>2. QED BY <1>1, TypeCorrect, PTL DEF Spec, ClosedOnce

-----------------------------------------------------------------------------
(* Session::stop removes only what is exported.                            *)

\* What the unwraps of Session::stop rest on.  A session's streams, recorded
\* or taken, are exported, each of them once; a session that has been created
\* is exported until its one stop is done.
RemovalInv ==
  /\ \A c \in calls : c.session \in created
  /\ \A s \in Session : Stopped(s) => s \in created
  /\ \A s \in created : s \in registered \/ stopPc[s] = "done"
  /\ \A s \in Session : stopPc[s] = "removing" => streams[s] = <<>>
  /\ \A s \in Session : Rng(streams[s]) \subseteq exported
  /\ \A s \in Session : \A x \in Rng(left[s]) : x \in exported /\ owner[x] = s
  /\ \A s \in Session : NoDup(streams[s]) /\ NoDup(left[s])

\* The invariant is what the unwraps need.
LEMMA RemovalImplies ==
  ASSUME TypeInv, RemovalInv
  PROVE  RemovalNeverPanics
<1> SUFFICES ASSUME NEW s \in Session, stopPc[s] = "removing"
             PROVE  /\ s \in registered
                    /\ left[s] # <<>> => Head(left[s]) \in exported
  BY DEF RemovalNeverPanics
<1>1. s \in registered
  BY DEF RemovalInv, Stopped
<1>2. left[s] # <<>> => Head(left[s]) \in Rng(left[s])
  BY RangeTail DEF TypeInv, TypeOK
<1>3. QED BY <1>1, <1>2 DEF RemovalInv

\* The method calls keep it: a stream is recorded once, and never into a
\* session that is removing its objects.
LEMMA CallRemoval ==
  ASSUME TypeInv, RemovalInv, ClientStep \/ CallStep \/ StartStep
  PROVE  RemovalInv'
<1>1. ASSUME NEW s \in Session, CreateSession(s) PROVE RemovalInv'
  BY <1>1 DEF TypeInv, TypeOK, RemovalInv, CreateSession, Stopped, stopVars
<1>2. ASSUME NEW c \in Call, Dispatch(c) PROVE RemovalInv'
  BY <1>2 DEF TypeInv, TypeOK, RemovalInv, Dispatch, Stopped, stopVars
<1>3. ASSUME NEW s \in Session, NEW x \in Stream, Record(s, x) PROVE RemovalInv'
  <2>1. /\ \A y \in Stream : owner[y] \in Session => y # x /\ owner'[y] = owner[y]
        /\ exported' = exported \cup {x} /\ calls' \subseteq calls
        /\ streams' = [streams EXCEPT ![s] = Append(@, x)]
        /\ UNCHANGED <<created, registered, stopPc, left>>
        /\ stopPc[s] # "removing"
    BY <1>3, ConstantsAssumption
       DEF TypeInv, TypeOK, Record, RecordGuard, Stopping, BeginCall, stopVars
  <2>2. x \notin Rng(streams[s]) /\ streams[s] \in Seq(Stream)
    BY <2>1 DEF TypeInv, TypeOK, Recorded
  <2>3. /\ Rng(Append(streams[s], x)) = Rng(streams[s]) \cup {x}
        /\ \A e : OnceIn(streams[s], e) => OnceIn(Append(streams[s], x), e)
    BY <2>2, RangeAppend, OnceAppend
  <2>4. OnceIn(Append(streams[s], x), x)
    <3>1. OnceIn(streams[s], x)
      BY <2>2 DEF OnceIn, Rng
    <3>2. QED BY <2>2, <3>1, OnceAppend
  <2>5. \A r \in Session : r # s => streams'[r] = streams[r]
    BY <2>1 DEF TypeInv, TypeOK
  <2>6. streams'[s] = Append(streams[s], x)
    BY <2>1 DEF TypeInv, TypeOK
  <2>7. \A r \in Session : Rng(streams'[r]) \subseteq exported' /\ NoDup(streams'[r])
    BY <2>1, <2>3, <2>4, <2>5, <2>6 DEF RemovalInv, NoDup
  <2>8. \A r \in Session : \A y \in Rng(left[r]) : y \in exported' /\ owner'[y] = r
    <3>1. \A r \in Session : Rng(left[r]) \subseteq Stream
      BY RangeType DEF TypeInv, TypeOK
    <3>2. QED BY <2>1, <3>1 DEF RemovalInv
  <2>9. QED BY <2>1, <2>5, <2>7, <2>8 DEF RemovalInv, Stopped
<1>4. ASSUME NEW s \in Session, RecordFails(s) PROVE RemovalInv'
  BY <1>4 DEF RemovalInv, RecordFails, BeginCall, Stopped, stopVars
<1>5. ASSUME NEW s \in Session, StartCall(s) PROVE RemovalInv'
  BY <1>5 DEF RemovalInv, StartCall, BeginCall, Stopped, stopVars
<1>6. ASSUME NEW s \in Session, StopCall(s) PROVE RemovalInv'
  <2>1. s \in created
    BY <1>6 DEF RemovalInv, StopCall, BeginCall
  <2>2. QED
    BY <1>6, <2>1
       DEF TypeInv, TypeOK, RemovalInv, StopCall, BeginCall, Enter, Stopped, stopVars
<1>7. ASSUME StartStep PROVE RemovalInv'
  BY <1>7 DEF RemovalInv, StartStep, StreamStart, StartReturns, Stopped, stopVars
<1>8. QED
  BY <1>1, <1>2, <1>3, <1>4, <1>5, <1>6, <1>7 DEF ClientStep, CallStep

\* The steps of a stop keep it: what leaves the object server leaves the list
\* of what there is to remove.
LEMMA StopRemoval ==
  ASSUME TypeInv, RemovalInv, NEW s \in Session, StopStep(s)
  PROVE  RemovalInv'
<1>1. ASSUME StopClosed(s) PROVE RemovalInv'
  BY <1>1 DEF TypeInv, TypeOK, RemovalInv, StopClosed, Stopped, dbusVars
<1>2. ASSUME StopSend(s) PROVE RemovalInv'
  BY <1>2 DEF TypeInv, TypeOK, RemovalInv, StopSend, Stopped, dbusVars
<1>3. ASSUME StopTake(s) PROVE RemovalInv'
  <2>1. Rng(<<>>) = {} /\ NoDup(<<>>)
    BY EmptySeq DEF Rng, NoDup
  <2>2. QED
    BY <1>3, <2>1, SMTT(30) DEF TypeInv, TypeOK, Recorded, RemovalInv, StopTake, Stopped
<1>4. ASSUME StopRemoveStream(s) PROVE RemovalInv'
  <2> DEFINE x == Head(left[s])
  <2>1. /\ Rng(left[s]) = {x} \cup Rng(Tail(left[s])) /\ left[s] \in Seq(Stream)
        /\ left[s] # <<>>
    BY <1>4, RangeTail DEF TypeInv, TypeOK, StopRemoveStream
  <2>2. x \notin Rng(Tail(left[s])) /\ NoDup(Tail(left[s]))
    BY <2>1, OnceTail DEF RemovalInv, NoDup
  <2>3. /\ exported' = exported \ {x} /\ streams[s] = <<>> /\ owner[x] = s
        /\ left' = [left EXCEPT ![s] = Tail(@)]
        /\ UNCHANGED <<calls, created, registered, stopPc, streams, owner>>
    BY <1>4, <2>1 DEF RemovalInv, StopRemoveStream
  <2>4. \A r \in Session : Rng(streams[r]) \subseteq exported'
    <3>1. Rng(<<>>) = {}
      BY EmptySeq DEF Rng
    <3>2. QED BY <2>3, <3>1 DEF TypeInv, Recorded, RemovalInv
  <2>5. \A r \in Session : left'[r] = IF r = s THEN Tail(left[s]) ELSE left[r]
    BY <2>3 DEF TypeInv, TypeOK
  <2>6. \A r \in Session : NoDup(left'[r]) /\
          \A y \in Rng(left'[r]) : y \in exported' /\ owner[y] = r
    BY <2>1, <2>2, <2>3, <2>5 DEF RemovalInv
  <2>7. QED BY <2>3, <2>4, <2>6 DEF RemovalInv, Stopped
<1>5. ASSUME StopUnregister(s) PROVE RemovalInv'
  BY <1>5 DEF TypeInv, TypeOK, RemovalInv, StopUnregister, Stopped
<1>6. QED BY <1>1, <1>2, <1>3, <1>4, <1>5 DEF StopStep

\* Neither thread's unwrap of ObjectServer::remove ever fails, whichever of
\* them stops the session and whatever is called meanwhile.
THEOREM RemovalIsSafe == Spec => []RemovalNeverPanics
<1>1. Init => RemovalInv
  <2>1. Rng(<<>>) = {} /\ NoDup(<<>>)
    BY EmptySeq DEF Rng, NoDup
  <2>2. QED BY <2>1 DEF Init, RemovalInv, Stopped
<1>2. ASSUME TypeInv, RemovalInv, [Next]_vars PROVE RemovalInv'
  <2>1. CASE UNCHANGED vars
    BY <1>2, <2>1 DEF RemovalInv, Stopped, vars, dbusVars, stopVars
  <2>2. CASE MainStep \/ PwStep
    <3>1. /\ UNCHANGED <<dbusVars, left>>
          /\ \A r \in Session :
               \/ stopPc'[r] = stopPc[r]
               \/ r \in registered /\ ~Stopped(r) /\ stopPc'[r] = "closing"
      BY <1>2, <2>2, MainStepsStop
    <3>2. registered \subseteq created /\ created \subseteq Session
      BY <1>2 DEF TypeInv, TypeOK
    <3>3. QED BY <1>2, <3>1, <3>2 DEF RemovalInv, Stopped, dbusVars
  <2>3. QED
    BY <1>2, <2>1, <2>2, CallRemoval, StopRemoval DEF Next
<1>3. TypeInv /\ RemovalInv => RemovalNeverPanics
  BY RemovalImplies
<1>4. QED BY <1>1, <1>2, <1>3, TypeCorrect, PTL DEF Spec

-----------------------------------------------------------------------------
(* One cast per stream.                                                    *)

\* Every queued StartCast and every cast stands for the one swap of the
\* stream's was_started.
CastInv ==
  /\ casts \subseteq wasStarted
  /\ \A x \in Stream : StartMsg(x) \in Rng(toState) =>
       x \in wasStarted /\ x \notin casts
  /\ \A x \in Stream : OnceIn(toState, StartMsg(x))

\* The invariant says what the property says, without counting.
LEMMA CastImplies ==
  ASSUME TypeInv, CastInv
  PROVE  OneCastPerStream
<1> SUFFICES ASSUME NEW x \in Stream, NEW R,
                    R = {i \in 1..Len(toState) : toState[i] = StartMsg(x)}
             PROVE  /\ Cardinality(R) + (IF x \in casts THEN 1 ELSE 0) <= 1
                    /\ R # {} => x \in wasStarted
  BY Zenon DEF OneCastPerStream
<1>1. R # {} => StartMsg(x) \in Rng(toState)
  BY DEF Rng
<1>2. CASE R = {}
  <2>1. Cardinality(R) = 0
    BY <1>2, FS_EmptySet
  <2>2. QED BY <1>2, <2>1
<1>3. CASE R # {}
  <2>1. PICK i \in R : TRUE
    BY <1>3
  <2>2. R = {i}
    BY <2>1 DEF CastInv, OnceIn
  <2>3. Cardinality(R) = 1
    BY <2>2, FS_Singleton
  <2>4. x \in wasStarted /\ x \notin casts
    BY <1>1, <1>3 DEF CastInv
  <2>5. QED BY <2>3, <2>4
<1>4. QED BY <1>2, <1>3

\* A step that starts no stream and takes no message: casts end, and the
\* channel keeps its StartCast messages in their places.
LEMMA CastKept ==
  ASSUME CastInv, UNCHANGED <<wasStarted, toState>>, casts' \subseteq casts
  PROVE  CastInv'
  BY DEF CastInv

\* Taking the first message keeps the rest of the channel as it was.
LEMMA TakeMessage ==
  ASSUME TypeInv, toState # <<>>, toState' = Tail(toState)
  PROVE  /\ Head(toState) \in Message
         /\ toState' \in Seq(Message)
         /\ Rng(toState) = {Head(toState)} \cup Rng(toState')
         /\ \A e : OnceIn(toState, e) =>
              /\ OnceIn(toState', e)
              /\ Head(toState) = e => e \notin Rng(toState')
  BY RangeTail, OnceTail DEF TypeInv, TypeOK

\* What the steps of the main loop do to the casts and the channel.
LEMMA MainStepsCasts ==
  ASSUME TypeInv, MainStep \/ PwStep
  PROVE  /\ UNCHANGED wasStarted
         /\ \/ UNCHANGED <<toState, casts>>
            \/ \E s \in Session :
                 UNCHANGED toState /\ casts' = casts \ CastsOf(s)
            \/ \E s \in Session :
                 /\ toState # <<>> /\ toState' = Tail(toState)
                 /\ Head(toState) = StopMsg(s) /\ casts' = casts \ CastsOf(s)
            \/ \E x \in Stream :
                 /\ toState # <<>> /\ toState' = Tail(toState)
                 /\ Head(toState) = StartMsg(x)
                 /\ \/ casts' = casts \cup {x}
                    \/ \E s \in Session : casts' = casts \ CastsOf(s)
<1>1. CASE HandleStartCast
  <2>1. PICK x \in Stream :
          /\ owner[x] \in Session /\ Head(toState) = StartMsg(x)
          /\ toState' = Tail(toState) /\ toState # <<>>
          /\ StartSucceeds(x) \/ StartFails(x)
    BY <1>1, StartCastMessage
  <2>2. \/ casts' = casts \cup {x}
        \/ \E s \in Session : casts' = casts \ CastsOf(s)
    BY <2>1 DEF StartSucceeds, StartFails, StopCast
  <2>3. QED BY <1>1, <2>1, <2>2 DEF HandleStartCast, dbusVars
<1>2. CASE HandleStopCast
  <2>1. /\ Head(toState).session \in Session
        /\ Head(toState) = StopMsg(Head(toState).session)
    BY <1>2, RangeTail, Messages DEF TypeInv, TypeOK, HandleStopCast
  <2>2. QED BY <1>2, <2>1 DEF HandleStopCast, StopCast, dbusVars
<1>3. CASE HandlePwStop
  <2>1. Head(fromPw).session \in Session
    BY <1>3, RangeTail, Messages DEF TypeInv, TypeOK, HandlePwStop
  <2>2. QED BY <1>3, <2>1 DEF HandlePwStop, StopCast, dbusVars
<1>4. CASE HandlePwFatal
  BY <1>4 DEF HandlePwFatal, dbusVars
<1>5. CASE StopNextPending
  BY <1>5 DEF TypeInv, TypeOK, StopNextPending, StopCast, dbusVars
<1>6. CASE PwStep
  BY <1>6 DEF PwStep, PwRequestsStop, PwFails, RenderFails, dbusVars, mainVars
<1>7. QED
  BY <1>1, <1>2, <1>3, <1>4, <1>5, <1>6 DEF MainStep

\* What a start loop does: it leaves everything, or starts the next stream.
LEMMA StartStepsCasts ==
  ASSUME TypeInv, StartStep
  PROVE  /\ UNCHANGED <<casts, taken, owner, streams, stopVars>>
         /\ \/ UNCHANGED <<wasStarted, toState>> /\ Rng(rest') \subseteq Rng(rest)
            \/ \E x \in Rng(rest) \ wasStarted :
                 /\ x \in Stream /\ starting # NoSession
                 /\ wasStarted' = wasStarted \cup {x}
                 /\ toState' = Append(toState, StartMsg(x))
                 /\ Rng(rest') \subseteq Rng(rest)
<1>1. CASE StreamStart
  <2>1. Head(rest) \in Rng(rest) /\ Head(rest) \in Stream /\ Rng(rest') \subseteq Rng(rest)
    BY <1>1, RangeTail DEF TypeInv, TypeOK, StreamStart
  <2>2. QED BY <1>1, <2>1 DEF StreamStart, stopVars, mainVars
<1>2. CASE StartReturns
  BY <1>2 DEF StartReturns, stopVars, mainVars
<1>3. QED BY <1>1, <1>2 DEF StartStep

\* A stream has at most one cast or one request on its way, and no second one
\* ever, however often its session is started.
THEOREM CastsCorrect == Spec => [](TypeInv /\ CastInv)
<1>1. Init => CastInv
  <2>1. Rng(<<>>) = {} /\ \A e : OnceIn(<<>>, e)
    BY EmptySeq DEF Rng, OnceIn
  <2>2. QED BY <2>1 DEF Init, CastInv
<1>2. ASSUME TypeInv, CastInv, [Next]_vars PROVE CastInv'
  <2>1. CASE UNCHANGED vars
    BY <1>2, <2>1, CastKept DEF vars, dbusVars, mainVars
  <2>2. CASE ClientStep \/ CallStep
    BY <1>2, <2>2, CastKept
       DEF ClientStep, CallStep, CreateSession, Dispatch, Record, RecordFails,
           StartCall, StopCall, mainVars
  <2>3. CASE StartStep
    <3>1. CASE UNCHANGED <<wasStarted, toState>>
      BY <1>2, <2>3, <3>1, StartStepsCasts, CastKept
    <3>2. ASSUME NEW x \in Stream \ wasStarted,
                 wasStarted' = wasStarted \cup {x},
                 toState' = Append(toState, StartMsg(x)), UNCHANGED casts
          PROVE  CastInv'
      <4>1. StartMsg(x) \in Message /\ toState \in Seq(Message)
            /\ StartMsg(x) \notin Rng(toState)
        BY <1>2, Messages DEF TypeInv, TypeOK, CastInv
      <4>2. Rng(toState') = Rng(toState) \cup {StartMsg(x)}
        BY <3>2, <4>1, RangeAppend
      <4>3. \A y \in Stream : OnceIn(toState', StartMsg(y))
        BY <1>2, <3>2, <4>1, OnceAppend, Messages DEF CastInv
      <4>4. QED BY <1>2, <3>2, <4>2, <4>3, Messages DEF CastInv
    <3>3. QED BY <1>2, <2>3, <3>1, <3>2, StartStepsCasts
  <2>4. CASE \E s \in Session : StopStep(s)
    <3>1. PICK s \in Session : StopStep(s)
      BY <2>4
    <3>2. CASE StopSend(s)
      <4>1. StopMsg(s) \in Message /\ toState \in Seq(Message)
        BY <1>2, Messages DEF TypeInv, TypeOK
      <4>2. /\ Rng(toState') = Rng(toState) \cup {StopMsg(s)}
            /\ \A y \in Stream : OnceIn(toState', StartMsg(y))
            /\ UNCHANGED <<wasStarted, casts>>
        BY <1>2, <3>2, <4>1, RangeAppend, OnceAppend, Messages
           DEF CastInv, StopSend, dbusVars, mainVars
      <4>3. QED BY <1>2, <4>2, Messages DEF CastInv
    <3>3. CASE ~StopSend(s)
      <4>1. UNCHANGED <<wasStarted, toState, casts>>
        BY <3>1, <3>3
           DEF StopStep, StopClosed, StopTake, StopRemoveStream, StopUnregister,
               dbusVars, mainVars
      <4>2. QED BY <1>2, <4>1, CastKept
    <3>4. QED BY <3>2, <3>3
  <2>5. CASE MainStep \/ PwStep
    <3>1. CASE UNCHANGED toState /\ casts' \subseteq casts
      BY <1>2, <2>5, <3>1, MainStepsCasts, CastKept
    <3>2. CASE toState # <<>> /\ toState' = Tail(toState) /\ casts' \subseteq casts
      BY <1>2, <2>5, <3>2, MainStepsCasts, TakeMessage DEF CastInv
    <3>3. ASSUME NEW x \in Stream, toState # <<>>, toState' = Tail(toState),
                 Head(toState) = StartMsg(x), casts' = casts \cup {x}
          PROVE  CastInv'
      <4>1. UNCHANGED wasStarted
        BY <1>2, <2>5, MainStepsCasts
      <4>2. QED BY <1>2, <3>3, <4>1, TakeMessage, Messages DEF CastInv
    <3>4. QED BY <1>2, <2>5, <3>1, <3>2, <3>3, MainStepsCasts
  <2>6. QED
    BY <1>2, <2>1, <2>2, <2>3, <2>4, <2>5 DEF Next
<1>3. QED BY <1>1, <1>2, TypeCorrect, PTL DEF Spec

\* The invariant the model is checked against.
THEOREM OneCastHolds == Spec => []OneCastPerStream
<1>1. TypeInv /\ CastInv => OneCastPerStream
  BY CastImplies
<1>2. QED BY <1>1, CastsCorrect, PTL

-----------------------------------------------------------------------------
(* A stop over D-Bus ends the casts.                                       *)

\* No StartCast of x can be handled after the StopCast of s, and a cast of x
\* has that StopCast before it.
Doomed(s, x) ==
  /\ Behind(toState, StartMsg(x), StopMsg(s))
  /\ x \in casts => StopMsg(s) \in Rng(toState)

\* Between sending StopCast and taking the streams, a stop on the D-Bus thread
\* does not await: no start loop slips a StartCast of one of them behind it.
StopsInv ==
  /\ starting = NoSession => rest = <<>>
  /\ \A s \in Session : ~Stopped(s) => stopper[s] = "nobody"
  /\ \A s \in Session : stopPc[s] \notin {"removing", "done"} => taken[s] = <<>>
  /\ \A s \in Session : (stopper[s] = "dbus" /\ stopPc[s] = "taking") =>
       /\ starting = NoSession
       /\ \A x \in Rng(streams[s]) : Doomed(s, x)
  /\ \A s \in Session : (stopper[s] = "dbus" /\ stopPc[s] \in {"removing", "done"}) =>
       \A x \in Rng(taken[s]) :
         /\ Doomed(s, x) /\ owner[x] = s
         /\ x \notin Rng(rest) /\ x \notin Rng(streams[s])

\* The invariant implies what the property says.
LEMMA StopsImplies ==
  ASSUME TypeInv, StopsInv
  PROVE  DbusStopEndsCasts
<1> SUFFICES ASSUME NEW s \in Session, stopper[s] = "dbus",
                    StopMsg(s) \notin Rng(toState), NEW x \in Rng(taken[s])
             PROVE  x \notin casts /\ StartMsg(x) \notin Rng(toState)
  BY DEF DbusStopEndsCasts
<1>1. taken[s] # <<>>
  BY EmptySeq DEF Rng
<1>2. Doomed(s, x)
  BY <1>1 DEF StopsInv
<1>3. QED BY <1>2, BehindRange DEF Doomed

\* Being doomed survives every step that keeps the channel or adds to it
\* anything but a StartCast of the stream, and keeps or ends casts.
LEMMA DoomedKept ==
  ASSUME TypeInv, NEW s \in Session, NEW x, Doomed(s, x), x \in casts' => x \in casts,
         \/ UNCHANGED toState
         \/ \E m \in Message : m # StartMsg(x) /\ toState' = Append(toState, m)
  PROVE  Doomed(s, x)'
<1>1. CASE UNCHANGED toState
  BY <1>1 DEF Doomed
<1>2. CASE \E m \in Message : m # StartMsg(x) /\ toState' = Append(toState, m)
  <2>1. PICK m \in Message : m # StartMsg(x) /\ toState' = Append(toState, m)
    BY <1>2
  <2>2. toState \in Seq(Message)
    BY DEF TypeInv, TypeOK
  <2>3. Behind(toState', StartMsg(x), StopMsg(s))
    BY <2>1, <2>2, BehindAppend DEF Doomed
  <2>4. Rng(toState) \subseteq Rng(toState')
    BY <2>1, <2>2, RangeAppend
  <2>5. QED BY <2>3, <2>4 DEF Doomed
<1>3. QED BY <1>1, <1>2

\* Being doomed survives the main loop: the StopCast that dooms the stream
\* ends its cast when it is handled.
LEMMA DoomedInMain ==
  ASSUME TypeInv, MainStep \/ PwStep, NEW s \in Session, NEW x \in Stream,
         Doomed(s, x), owner[x] = s
  PROVE  Doomed(s, x)'
<1>1. CASE UNCHANGED toState /\ casts' \subseteq casts
  BY <1>1, DoomedKept
<1>2. CASE toState # <<>> /\ toState' = Tail(toState)
  <2>1. toState \in Seq(Message)
    BY DEF TypeInv, TypeOK
  <2>2. Behind(toState', StartMsg(x), StopMsg(s))
    BY <1>2, <2>1, BehindTail DEF Doomed
  <2>3. Rng(toState) = {Head(toState)} \cup Rng(toState')
    BY <1>2, <2>1, RangeTail
  <2>4. CASE Head(toState) = StopMsg(s) /\ casts' = casts \ CastsOf(s)
    BY <2>2, <2>4 DEF Doomed, CastsOf
  <2>5. CASE Head(toState) # StopMsg(s) /\ casts' \subseteq casts
    BY <2>2, <2>3, <2>5 DEF Doomed
  <2>6. ASSUME NEW y \in Stream, Head(toState) = StartMsg(y), casts' = casts \cup {y}
        PROVE  Doomed(s, x)'
    <3>1. Head(toState) # StopMsg(s)
      BY <2>6, Messages
    <3>2. y = x => StopMsg(s) \in Rng(toState')
      BY <1>2, <2>1, <2>6, BehindTail DEF Doomed
    <3>3. QED BY <2>2, <2>3, <2>6, <3>1, <3>2 DEF Doomed
  <2>7. QED BY <1>2, <2>4, <2>5, <2>6, MainStepsCasts, Messages
<1>3. QED BY <1>1, <1>2, MainStepsCasts

\* Method calls and start loops keep it: a start loop that runs holds no
\* stream of a session whose stop has sent its StopCast.
LEMMA CallStops ==
  ASSUME TypeInv, CastInv, StopsInv, ClientStep \/ CallStep \/ StartStep
  PROVE  StopsInv'
<1>1. CASE ClientStep
  <2>1. UNCHANGED <<starting, rest, stopVars, streams, owner, toState, casts>>
    BY <1>1 DEF ClientStep, CreateSession, Dispatch, mainVars
  <2>2. QED BY <2>1 DEF StopsInv, Stopped, Doomed, stopVars
<1>2. ASSUME NEW s \in Session, NEW x \in Stream, Record(s, x) PROVE StopsInv'
  <2>1. /\ \A y \in Stream : owner[y] \in Session => y # x /\ owner'[y] = owner[y]
        /\ streams' = [streams EXCEPT ![s] = Append(@, x)]
        /\ UNCHANGED <<starting, rest, stopVars, toState, casts>>
        /\ ~Stopping(s) /\ owner[x] = NoSession
    BY <1>2, ConstantsAssumption
       DEF TypeInv, TypeOK, Record, RecordGuard, BeginCall, mainVars
  <2>2. Rng(Append(streams[s], x)) = Rng(streams[s]) \cup {x}
    BY RangeAppend DEF TypeInv, TypeOK
  <2>3. \A r \in Session : Rng(streams'[r]) \subseteq Rng(streams[r]) \cup {x}
        /\ (r # s => streams'[r] = streams[r])
    BY <2>1, <2>2 DEF TypeInv, TypeOK
  <2>4. \A r \in Session : Rng(taken[r]) \subseteq Stream
    BY RangeType DEF TypeInv, TypeOK
  <2>5. \A r \in Session : (stopper[r] = "dbus" /\ stopPc[r] = "taking") => r # s
    BY <2>1 DEF Stopping
  <2>6. UNCHANGED <<stopPc, stopper, taken>>
    BY <2>1 DEF stopVars
  <2>7. \A r \in Session : \A y : Doomed(r, y) => Doomed(r, y)'
    BY <2>1 DEF Doomed
  <2>8. \A r \in Session : \A y \in Rng(taken[r]) : owner[y] = r => owner'[y] = r /\ y # x
    BY <2>1, <2>4
  <2>9. \A r \in Session : (stopper[r] = "dbus" /\ stopPc[r] = "taking") =>
          /\ starting' = NoSession
          /\ \A y \in Rng(streams'[r]) : Doomed(r, y)'
    BY <2>1, <2>3, <2>5, <2>7 DEF StopsInv
  <2>10. \A r \in Session :
           (stopper[r] = "dbus" /\ stopPc[r] \in {"removing", "done"}) =>
             \A y \in Rng(taken[r]) :
               /\ Doomed(r, y)' /\ owner'[y] = r
               /\ y \notin Rng(rest) /\ y \notin Rng(streams'[r])
    BY <2>3, <2>7, <2>8 DEF StopsInv
  <2>11. QED
    BY <2>1, <2>6, <2>9, <2>10 DEF StopsInv, Stopped
<1>3. ASSUME NEW s \in Session, RecordFails(s) PROVE StopsInv'
  <2>1. UNCHANGED <<starting, rest, stopVars, streams, owner, toState, casts>>
    BY <1>3 DEF RecordFails, mainVars
  <2>2. QED BY <2>1 DEF StopsInv, Stopped, Doomed, stopVars
<1>4. ASSUME NEW s \in Session, StartCall(s) PROVE StopsInv'
  <2>1. /\ DbusFree /\ starting' = s /\ rest' = streams[s]
        /\ UNCHANGED <<stopVars, streams, owner, toState, casts>>
    BY <1>4 DEF StartCall, BeginCall, mainVars
  <2>2. \A r \in Session : ~(stopper[r] = "dbus" /\ stopPc[r] = "taking")
    BY <2>1 DEF DbusFree
  <2>3. \A r \in Session : \A x \in Rng(taken[r]) :
          owner[x] = r /\ x \notin Rng(streams[r]) => x \notin Rng(streams[s])
    BY DEF TypeInv, Recorded
  <2>4. QED
    BY <2>1, <2>2, <2>3, ConstantsAssumption DEF StopsInv, Stopped, Doomed, stopVars
<1>5. ASSUME NEW s \in Session, StopCall(s) PROVE StopsInv'
  <2>1. UNCHANGED <<starting, rest, taken, streams, owner, toState, casts>>
    BY <1>5 DEF StopCall, Enter, stopVars, mainVars
  <2>2. \A r \in Session :
          \/ stopPc'[r] = stopPc[r] /\ stopper'[r] = stopper[r]
          \/ ~Stopped(r) /\ stopPc'[r] = "closing"
    BY <1>5 DEF StopCall, Enter, Stopped, stopVars, TypeInv, TypeOK
  <2>3. QED BY <2>1, <2>2 DEF StopsInv, Stopped, Doomed
<1>6. CASE StartStep
  <2>1. /\ UNCHANGED <<casts, taken, owner, streams, stopVars>>
        /\ Rng(rest') \subseteq Rng(rest)
    BY <1>6, StartStepsCasts
  <2>2. starting' = NoSession => rest' = <<>>
    BY <1>6 DEF StartStep, StreamStart, StartReturns
  <2>3. starting # NoSession
    BY <1>6 DEF StartStep, StreamStart, StartReturns
  <2>4. ASSUME NEW s \in Session, NEW x \in Rng(taken[s]), Doomed(s, x),
               x \notin Rng(rest)
        PROVE  Doomed(s, x)'
    <3>1. CASE UNCHANGED toState
      BY <2>1, <2>4, <3>1, DoomedKept
    <3>2. CASE \E y \in Rng(rest) : y \in Stream /\ toState' = Append(toState, StartMsg(y))
      BY <2>1, <2>4, <3>2, DoomedKept, Messages
    <3>3. QED BY <1>6, <3>1, <3>2, StartStepsCasts
  <2>5. QED
    BY <2>1, <2>2, <2>3, <2>4 DEF StopsInv, Stopped, stopVars
<1>7. QED
  BY <1>1, <1>2, <1>3, <1>4, <1>5, <1>6 DEF CallStep

\* The steps of a stop keep it: what it takes it has doomed by the StopCast it
\* sent before.
LEMMA StopStops ==
  ASSUME TypeInv, CastInv, StopsInv, NEW s \in Session, StopStep(s)
  PROVE  StopsInv'
<1>1. CASE StopClosed(s)
  <2>1. /\ UNCHANGED <<starting, rest, stopper, taken, streams, owner, toState, casts>>
        /\ stopPc[s] = "closing" /\ stopPc' = [stopPc EXCEPT ![s] = "sending"]
    BY <1>1 DEF StopClosed, dbusVars, mainVars
  <2>2. QED BY <2>1 DEF TypeInv, TypeOK, StopsInv, Stopped, Doomed
<1>2. CASE StopSend(s)
  <2>1. /\ UNCHANGED <<starting, rest, stopper, taken, streams, owner, casts>>
        /\ stopPc[s] = "sending" /\ stopPc' = [stopPc EXCEPT ![s] = "taking"]
        /\ toState' = Append(toState, StopMsg(s))
        /\ stopper[s] = "dbus" => starting = NoSession
    BY <1>2 DEF StopSend, MayStep, DbusFree, dbusVars, mainVars
  <2>2. StopMsg(s) \in Message /\ toState \in Seq(Message)
    BY Messages DEF TypeInv, TypeOK
  <2>3. \A r \in Session : \A x : Doomed(r, x) => Doomed(r, x)'
    BY <2>1, <2>2, DoomedKept, Messages
  <2>4. \A x : Doomed(s, x)'
    <3>1. Rng(toState') = Rng(toState) \cup {StopMsg(s)}
      BY <2>1, <2>2, RangeAppend
    <3>2. \A x : Behind(toState', StartMsg(x), StopMsg(s))
      BY <2>1, <2>2, BehindAppend, Messages
    <3>3. QED BY <3>1, <3>2 DEF Doomed
  <2>5. \A r \in Session : stopPc'[r] = IF r = s THEN "taking" ELSE stopPc[r]
    BY <2>1 DEF TypeInv, TypeOK
  <2>6. QED
    BY <2>1, <2>3, <2>4, <2>5 DEF StopsInv, Stopped
<1>3. CASE StopTake(s)
  <2>1. /\ UNCHANGED <<starting, rest, stopper, owner, toState, casts>>
        /\ stopPc[s] = "taking"
    BY <1>3 DEF StopTake, mainVars
  <2>2. \A r \in Session :
          /\ stopPc'[r] = IF r = s THEN "removing" ELSE stopPc[r]
          /\ taken'[r] = IF r = s THEN streams[s] ELSE taken[r]
          /\ streams'[r] = IF r = s THEN <<>> ELSE streams[r]
    BY <1>3 DEF TypeInv, TypeOK, StopTake
  <2>3. Rng(<<>>) = {}
    BY EmptySeq DEF Rng
  <2>4. \A r \in Session : \A x : Doomed(r, x) => Doomed(r, x)'
    BY <2>1 DEF Doomed
  <2>5. stopper[s] = "dbus" => \A x \in Rng(streams[s]) :
          Doomed(s, x)' /\ owner[x] = s /\ x \notin Rng(rest)
    BY <2>1, <2>3, <2>4 DEF StopsInv, TypeInv, Recorded
  <2>6. QED
    BY <2>1, <2>2, <2>3, <2>4, <2>5 DEF StopsInv, Stopped
<1>4. CASE StopRemoveStream(s)
  <2>1. UNCHANGED <<starting, rest, stopPc, stopper, taken, streams, owner, toState, casts>>
    BY <1>4 DEF StopRemoveStream, mainVars
  <2>2. QED BY <2>1 DEF StopsInv, Stopped, Doomed
<1>5. CASE StopUnregister(s)
  <2>1. /\ UNCHANGED <<starting, rest, stopper, taken, streams, owner, toState, casts>>
        /\ stopPc[s] = "removing" /\ stopPc' = [stopPc EXCEPT ![s] = "done"]
    BY <1>5 DEF StopUnregister
  <2>2. QED BY <2>1 DEF TypeInv, TypeOK, StopsInv, Stopped, Doomed
<1>6. QED BY <1>1, <1>2, <1>3, <1>4, <1>5 DEF StopStep

\* The main loop keeps it: it starts no stop but on its own thread.
LEMMA MainStops ==
  ASSUME TypeInv, CastInv, StopsInv, MainStep \/ PwStep
  PROVE  StopsInv'
<1>1. /\ UNCHANGED <<starting, rest, taken, streams, owner>>
      /\ \A r \in Session :
           \/ stopPc'[r] = stopPc[r] /\ stopper'[r] = stopper[r]
           \/ ~Stopped(r) /\ stopPc'[r] = "closing" /\ stopper'[r] = "main"
  BY MainStepsStop DEF dbusVars
<1>2. /\ \A r \in Session : Rng(taken[r]) \subseteq Stream
      /\ \A r \in Session : Rng(streams[r]) \subseteq Stream
  BY RangeType DEF TypeInv, TypeOK
<1>3. \A r \in Session : \A x \in Stream :
        Doomed(r, x) /\ owner[x] = r => Doomed(r, x)'
  BY DoomedInMain
<1>4. \A r \in Session : \A x \in Rng(streams[r]) : owner[x] = r
  BY DEF TypeInv, Recorded
<1>5. QED
  BY <1>1, <1>2, <1>3, <1>4 DEF StopsInv, Stopped

\* Once the StopCast of a stop over D-Bus has been handled, no stream it took
\* from the session is cast or on its way to be.
THEOREM DbusStopHolds == Spec => []DbusStopEndsCasts
<1>1. Init => StopsInv
  <2>1. Rng(<<>>) = {}
    BY EmptySeq DEF Rng
  <2>2. QED BY <2>1 DEF Init, StopsInv, Stopped
<1>2. ASSUME TypeInv, CastInv, StopsInv, [Next]_vars PROVE StopsInv'
  <2>1. CASE UNCHANGED vars
    BY <1>2, <2>1
       DEF StopsInv, Stopped, Doomed, vars, dbusVars, stopVars, mainVars
  <2>2. QED
    BY <1>2, <2>1, CallStops, StopStops, MainStops DEF Next
<1>3. TypeInv /\ StopsInv => DbusStopEndsCasts
  BY StopsImplies
<1>4. QED BY <1>1, <1>2, <1>3, CastsCorrect, PTL DEF Spec

-----------------------------------------------------------------------------
(* The control plane implements the life of a stream.                      *)

\* A step that keeps what an observer looks at is a stutter.
LEMMA StageKept ==
  ASSUME UNCHANGED <<casts, wasStarted>>,
         \A x \in Stream : StartMsg(x) \in Rng(toState') <=> StartMsg(x) \in Rng(toState)
  PROVE  UNCHANGED stage
  BY DEF stage

\* The stage of a stream, with the cases apart.
LEMMA StageOf ==
  ASSUME NEW x \in Stream
  PROVE  /\ x \in casts => stage[x] = "running"
         /\ x \notin casts /\ StartMsg(x) \in Rng(toState) => stage[x] = "requested"
         /\ x \notin casts /\ StartMsg(x) \notin Rng(toState) =>
              stage[x] = IF x \in wasStarted THEN "ended" ELSE "idle"
  BY DEF stage

\* A step after which some streams, requested or cast, are neither, and all
\* others are what they were, ends those streams.
LEMMA StageEnds ==
  ASSUME CastInv, UNCHANGED wasStarted, NEW E \in SUBSET Stream,
         \A x \in E : x \in casts \/ StartMsg(x) \in Rng(toState),
         \A x \in E : x \notin casts' /\ StartMsg(x) \notin Rng(toState'),
         \A x \in Stream \ E :
           /\ x \in casts' <=> x \in casts
           /\ StartMsg(x) \in Rng(toState') <=> StartMsg(x) \in Rng(toState)
  PROVE  Lifecycle!End(E)
<1>1. \A x \in E : stage[x] \in {"requested", "running"} /\ x \in wasStarted
  BY StageOf DEF CastInv
<1>2. stage' = [x \in Stream |-> IF x \in E THEN "ended" ELSE stage[x]]
  BY <1>1 DEF stage
<1>3. QED BY <1>1, <1>2 DEF Lifecycle!End

\* The main loop begins the cast of a requested stream, or ends the streams of
\* the session it stops.
LEMMA MainStage ==
  ASSUME TypeInv, CastInv, MainStep \/ PwStep
  PROVE  Lifecycle!Next \/ UNCHANGED stage
<1>1. UNCHANGED wasStarted
  BY MainStepsCasts
<1>2. CASE UNCHANGED <<toState, casts>>
  BY <1>1, <1>2, StageKept
<1>3. ASSUME NEW s \in Session, UNCHANGED toState, casts' = casts \ CastsOf(s)
      PROVE  Lifecycle!Next
  <2>1. CastsOf(s) \in SUBSET Stream /\ CastsOf(s) \subseteq casts
    BY DEF CastsOf, TypeInv, TypeOK
  <2>2. Lifecycle!End(CastsOf(s))
    BY <1>1, <1>3, <2>1, StageEnds DEF CastInv
  <2>3. QED BY <2>1, <2>2 DEF Lifecycle!Next
<1>4. ASSUME NEW s \in Session, toState # <<>>, toState' = Tail(toState),
             Head(toState) = StopMsg(s), casts' = casts \ CastsOf(s)
      PROVE  Lifecycle!Next
  <2>1. CastsOf(s) \in SUBSET Stream /\ CastsOf(s) \subseteq casts
    BY DEF CastsOf, TypeInv, TypeOK
  <2>2. \A x \in Stream : StartMsg(x) \in Rng(toState') <=> StartMsg(x) \in Rng(toState)
    BY <1>4, TakeMessage, Messages
  <2>3. Lifecycle!End(CastsOf(s))
    BY <1>1, <1>4, <2>1, <2>2, StageEnds DEF CastInv
  <2>4. QED BY <2>1, <2>3 DEF Lifecycle!Next
<1>5. ASSUME NEW x \in Stream, toState # <<>>, toState' = Tail(toState),
             Head(toState) = StartMsg(x)
      PROVE  /\ StartMsg(x) \in Rng(toState) /\ StartMsg(x) \notin Rng(toState')
             /\ x \notin casts
             /\ \A y \in Stream \ {x} :
                  StartMsg(y) \in Rng(toState') <=> StartMsg(y) \in Rng(toState)
  BY <1>5, TakeMessage, Messages DEF CastInv
<1>6. ASSUME NEW x \in Stream, toState # <<>>, toState' = Tail(toState),
             Head(toState) = StartMsg(x), casts' = casts \cup {x}
      PROVE  Lifecycle!Next
  <2>1. stage[x] = "requested"
    BY <1>5, <1>6, StageOf
  <2>2. stage' = [stage EXCEPT ![x] = "running"]
    BY <1>1, <1>5, <1>6 DEF stage
  <2>3. QED BY <2>1, <2>2 DEF Lifecycle!Next, Lifecycle!Begin
<1>7. ASSUME NEW x \in Stream, toState # <<>>, toState' = Tail(toState),
             Head(toState) = StartMsg(x), NEW s \in Session,
             casts' = casts \ CastsOf(s)
      PROVE  Lifecycle!Next
  <2> DEFINE E == CastsOf(s) \cup {x}
  <2>1. E \in SUBSET Stream /\ CastsOf(s) \subseteq casts
    BY DEF CastsOf, TypeInv, TypeOK
  <2>2. /\ \A y \in E : y \in casts \/ StartMsg(y) \in Rng(toState)
        /\ \A y \in E : y \notin casts' /\ StartMsg(y) \notin Rng(toState')
        /\ \A y \in Stream \ E :
             /\ y \in casts' <=> y \in casts
             /\ StartMsg(y) \in Rng(toState') <=> StartMsg(y) \in Rng(toState)
    BY <1>5, <1>7, <2>1 DEF CastInv
  <2>3. Lifecycle!End(E)
    BY <1>1, <2>1, <2>2, StageEnds
  <2>4. QED BY <2>1, <2>3 DEF Lifecycle!Next
<1>8. QED
  BY <1>2, <1>3, <1>4, <1>6, <1>7, MainStepsCasts

\* The D-Bus thread requests a stream for the first time, or stutters.
LEMMA DbusStage ==
  ASSUME TypeInv, CastInv,
         ClientStep \/ CallStep \/ StartStep \/ \E s \in Session : StopStep(s)
  PROVE  Lifecycle!Next \/ UNCHANGED stage
<1>1. CASE ClientStep \/ CallStep
  <2>1. UNCHANGED <<casts, wasStarted, toState>>
    BY <1>1
       DEF ClientStep, CallStep, CreateSession, Dispatch, Record, RecordFails,
           StartCall, StopCall, mainVars
  <2>2. QED BY <2>1, StageKept
<1>2. CASE StartStep
  <2>1. UNCHANGED casts
    BY <1>2, StartStepsCasts
  <2>2. CASE UNCHANGED <<wasStarted, toState>>
    BY <2>1, <2>2, StageKept
  <2>3. ASSUME NEW x \in Stream \ wasStarted, wasStarted' = wasStarted \cup {x},
               toState' = Append(toState, StartMsg(x))
        PROVE  Lifecycle!Next
    <3>1. StartMsg(x) \in Message /\ toState \in Seq(Message)
      BY Messages DEF TypeInv, TypeOK
    <3>2. Rng(toState') = Rng(toState) \cup {StartMsg(x)}
      BY <2>3, <3>1, RangeAppend
    <3>3. x \notin casts /\ StartMsg(x) \notin Rng(toState)
      BY DEF CastInv
    <3>4. stage[x] = "idle"
      BY <3>3, StageOf
    <3>5. \A y \in Stream \ {x} :
            StartMsg(y) \in Rng(toState') <=> StartMsg(y) \in Rng(toState)
      BY <3>2, Messages
    <3>6. stage' = [stage EXCEPT ![x] = "requested"]
      BY <2>1, <2>3, <3>2, <3>3, <3>5 DEF stage
    <3>7. QED BY <3>4, <3>6 DEF Lifecycle!Next, Lifecycle!Request
  <2>4. QED BY <1>2, <2>2, <2>3, StartStepsCasts
<1>3. ASSUME NEW s \in Session, StopStep(s) PROVE UNCHANGED stage
  <2>1. UNCHANGED <<casts, wasStarted>>
    BY <1>3
       DEF StopStep, StopClosed, StopSend, StopTake, StopRemoveStream,
           StopUnregister, dbusVars, mainVars
  <2>2. \A x \in Stream : StartMsg(x) \in Rng(toState') <=> StartMsg(x) \in Rng(toState)
    <3>1. CASE StopSend(s)
      <4>1. StopMsg(s) \in Message /\ toState \in Seq(Message)
        BY Messages DEF TypeInv, TypeOK
      <4>2. QED BY <3>1, <4>1, RangeAppend, Messages DEF StopSend
    <3>2. CASE ~StopSend(s)
      BY <1>3, <3>2
         DEF StopStep, StopClosed, StopTake, StopRemoveStream, StopUnregister
    <3>3. QED BY <3>1, <3>2
  <2>3. QED BY <2>1, <2>2, StageKept
<1>4. QED BY <1>1, <1>2, <1>3

\* Whatever the threads do, a stream is requested once, cast after that, and
\* never again once its cast has ended.
THEOREM LifecycleImplemented == Spec => ImplementsLifecycle
<1>1. Init => Lifecycle!Init
  <2>1. Rng(<<>>) = {}
    BY EmptySeq DEF Rng
  <2>2. QED BY <2>1 DEF Init, Lifecycle!Init, stage
<1>2. ASSUME TypeInv, CastInv, [Next]_vars
      PROVE  [Lifecycle!Next]_stage
  <2>1. CASE UNCHANGED vars
    BY <2>1, StageKept DEF vars, dbusVars, mainVars
  <2>2. QED
    BY <1>2, <2>1, MainStage, DbusStage DEF Next
<1>3. QED
  BY <1>1, <1>2, CastsCorrect, PTL DEF Spec, ImplementsLifecycle, Lifecycle!Spec
=============================================================================
