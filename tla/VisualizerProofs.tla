-------------------------- MODULE VisualizerProofs --------------------------
(***************************************************************************)
(* Proofs about Visualizer for any set of sample periods and any number of  *)
(* slices, messages and user actions.                                       *)
(***************************************************************************)
EXTENDS Visualizer, FiniteSetTheorems, SequenceTheorems, TLAPS

-----------------------------------------------------------------------------
(* The inductive invariant.                                                  *)

What  == {"try", "spin", "resume", "block", "quit", "join"}
Frame == [what : What, timer : Timer \cup {None}, messages : Seq(Nat)]

Types ==
  /\ sim \in {"test", "wait", "clear", "check", "lock", "run", "ended"}
  /\ locked = (sim = "run")
  /\ now \in 0 .. MaxTime /\ target_time \in 0 .. MaxTime /\ shown \in 0 .. MaxTime
  /\ m_pauseMessages \in Seq(Nat) /\ pause_messages \in Seq(Nat) /\ dialogs \in Seq(Nat)
  /\ raised \in Nat
  /\ gui \in Seq(Frame)
  /\ playing \in BOOLEAN /\ quit \in BOOLEAN
  /\ timers \subseteq Timer
  /\ update_timeout_id \in Timer \cup {None}
  /\ sample_period \in Periods
  /\ done \in Nat

\* Callbacks that wait inside the event loop hold no messages, only the innermost
\* one may be elsewhere, and no timer is twice on the stack.
GoodStack(s) ==
  \A i \in 1 .. Len(s) :
    /\ i > 1 => s[i].what = "spin"
    /\ s[i].what # "resume" => s[i].messages = <<>>
    /\ \A j \in 1 .. Len(s) : (i # j /\ s[i].timer # None) => s[i].timer # s[j].timer

Stack == GoodStack(gui)

\* The target was set one sample period past the time shown.
Ahead ==
  /\ now >= shown
  /\ \E p \in Periods : now <= shown + p /\ target_time <= shown + p

\* The sources that are attached, being called or remembered: each thing the user
\* does adds at most one.
Used == (timers \cup InCall \cup {update_timeout_id}) \ {None}

FewTimers == IsFiniteSet(Used) /\ Cardinality(Used) <= done + 1

TimerWhilePlaying == (playing /\ ~ quit) => timers # {}

Inv == Types /\ Stack /\ MessagesShownOnce /\ Ahead /\ FewTimers /\ TimerWhilePlaying

-----------------------------------------------------------------------------
(* The stack of callbacks.                                                   *)

TimersOf(s)   == {s[i].timer : i \in 1 .. Len(s)}
MessagesOf(s) == IF s = <<>> THEN <<>> ELSE Head(s).messages

\* A callback is pushed only while the others wait.
LEMMA PushFrame ==
  ASSUME NEW s \in Seq(Frame), GoodStack(s), s # <<>> => Head(s).what = "spin",
         NEW f \in Frame, f.what # "resume", f.messages = <<>>,
         f.timer # None => f.timer \notin TimersOf(s)
  PROVE  /\ <<f>> \o s \in Seq(Frame)
         /\ GoodStack(<<f>> \o s)
         /\ TimersOf(<<f>> \o s) = TimersOf(s) \cup {f.timer}
         /\ MessagesOf(<<f>> \o s) = MessagesOf(s)
<1> DEFINE t == <<f>> \o s
<1>1. /\ t \in Seq(Frame) /\ Len(t) = Len(s) + 1 /\ Len(s) \in Nat
      /\ t[1] = f
      /\ \A i \in 2 .. Len(t) : t[i] = s[i - 1] /\ i - 1 \in 1 .. Len(s)
      /\ \A i \in 1 .. Len(s) : t[i + 1] = s[i] /\ i + 1 \in 1 .. Len(t)
  OBVIOUS
<1> HIDE DEF t
<1>2. s # <<>> => s[1].what = "spin" /\ Head(s) = s[1] /\ s[1].messages = <<>>
  BY DEF GoodStack
<1>3. \A i \in 1 .. Len(s) : s[i].what = "spin"
  BY <1>2 DEF GoodStack
<1>4. TimersOf(t) = TimersOf(s) \cup {f.timer}
  <2>1. TimersOf(t) \subseteq TimersOf(s) \cup {f.timer}
    <3> SUFFICES ASSUME NEW i \in 1 .. Len(t)
                 PROVE  t[i].timer \in TimersOf(s) \cup {f.timer}
      BY DEF TimersOf
    <3>1. CASE i = 1
      BY <1>1, <3>1
    <3>2. CASE i \in 2 .. Len(t)
      BY <1>1, <3>2 DEF TimersOf
    <3> QED
      BY <1>1, <3>1, <3>2
  <2>2. TimersOf(s) \subseteq TimersOf(t)
    <3> SUFFICES ASSUME NEW i \in 1 .. Len(s)
                 PROVE  s[i].timer \in TimersOf(t)
      BY DEF TimersOf
    <3>1. t[i + 1] = s[i] /\ i + 1 \in 1 .. Len(t)
      BY <1>1
    <3> QED
      BY <3>1 DEF TimersOf
  <2>3. f.timer \in TimersOf(t)
    <3>1. 1 \in 1 .. Len(t)
      BY <1>1
    <3> QED
      BY <1>1, <3>1 DEF TimersOf
  <2> QED
    BY <2>1, <2>2, <2>3
<1>5. GoodStack(t)
  <2> SUFFICES ASSUME NEW i \in 1 .. Len(t)
               PROVE  /\ i > 1 => t[i].what = "spin"
                      /\ t[i].what # "resume" => t[i].messages = <<>>
                      /\ \A j \in 1 .. Len(t) :
                           (i # j /\ t[i].timer # None) => t[i].timer # t[j].timer
    BY DEF GoodStack
  <2>1. \A k \in 1 .. Len(s) : s[k].timer \in TimersOf(s)
    BY DEF TimersOf
  <2>2. CASE i = 1
    <3>1. \A j \in 1 .. Len(t) : j # 1 => t[j] = s[j - 1] /\ j - 1 \in 1 .. Len(s)
      BY <1>1
    <3> QED
      BY <1>1, <2>1, <2>2, <3>1
  <2>3. CASE i \in 2 .. Len(t)
    <3>1. t[i] = s[i - 1] /\ i - 1 \in 1 .. Len(s)
      BY <1>1, <2>3
    <3>2. t[i].what = "spin" /\ t[i].messages = <<>>
      BY <1>3, <3>1 DEF GoodStack
    <3>3. ASSUME NEW j \in 1 .. Len(t), i # j, t[i].timer # None
          PROVE  t[i].timer # t[j].timer
      <4>1. CASE j = 1
        BY <1>1, <2>1, <3>1, <3>3, <4>1
      <4>2. CASE j \in 2 .. Len(t)
        <5>1. t[j] = s[j - 1] /\ j - 1 \in 1 .. Len(s) /\ i - 1 # j - 1
          BY <1>1, <2>3, <3>3, <4>2
        <5> QED
          BY <3>1, <3>3, <5>1 DEF GoodStack
      <4> QED
        BY <1>1, <4>1, <4>2
    <3> QED
      BY <3>2, <3>3
  <2> QED
    BY <1>1, <2>2, <2>3
<1>6. MessagesOf(t) = MessagesOf(s)
  <2>1. t # <<>> /\ Head(t) = f
    BY <1>1
  <2> QED
    BY <1>2, <2>1 DEF MessagesOf
<1> QED
  BY <1>1, <1>4, <1>5, <1>6 DEF t

\* A callback returns: what was below it waits, without messages.
LEMMA PopFrame ==
  ASSUME NEW s \in Seq(Frame), GoodStack(s), s # <<>>
  PROVE  /\ Tail(s) \in Seq(Frame)
         /\ GoodStack(Tail(s))
         /\ TimersOf(Tail(s)) \subseteq TimersOf(s)
         /\ MessagesOf(Tail(s)) = <<>>
<1> DEFINE t == Tail(s)
<1>1. /\ t \in Seq(Frame) /\ Len(t) = Len(s) - 1 /\ Len(s) \in Nat /\ Len(s) >= 1
      /\ \A i \in 1 .. Len(t) : t[i] = s[i + 1] /\ i + 1 \in 1 .. Len(s)
  OBVIOUS
<1> HIDE DEF t
<1>2. \A i \in 1 .. Len(t) : t[i].what = "spin" /\ t[i].messages = <<>>
  <2> SUFFICES ASSUME NEW i \in 1 .. Len(t)
               PROVE  t[i].what = "spin" /\ t[i].messages = <<>>
    OBVIOUS
  <2>1. t[i] = s[i + 1] /\ i + 1 \in 1 .. Len(s) /\ i + 1 > 1
    BY <1>1
  <2> QED
    BY <2>1 DEF GoodStack
<1>3. ASSUME NEW i \in 1 .. Len(t), NEW j \in 1 .. Len(t), i # j, t[i].timer # None
      PROVE  t[i].timer # t[j].timer
  <2>1. /\ t[i] = s[i + 1] /\ i + 1 \in 1 .. Len(s)
        /\ t[j] = s[j + 1] /\ j + 1 \in 1 .. Len(s) /\ i + 1 # j + 1
    BY <1>1, <1>3
  <2> QED
    BY <1>3, <2>1 DEF GoodStack
<1>4. GoodStack(t)
  BY <1>2, <1>3 DEF GoodStack
<1>5. TimersOf(t) \subseteq TimersOf(s)
  <2> SUFFICES ASSUME NEW i \in 1 .. Len(t)
               PROVE  t[i].timer \in TimersOf(s)
    BY DEF TimersOf
  <2>1. t[i] = s[i + 1] /\ i + 1 \in 1 .. Len(s)
    BY <1>1
  <2> QED
    BY <2>1 DEF TimersOf
<1>6. MessagesOf(t) = <<>>
  <2>1. CASE t = <<>>
    BY <2>1 DEF MessagesOf
  <2>2. CASE t # <<>>
    <3>1. Head(t) = t[1] /\ 1 \in 1 .. Len(t)
      BY <1>1, <2>2
    <3> QED
      BY <1>2, <2>2, <3>1 DEF MessagesOf
  <2> QED
    BY <2>1, <2>2
<1> QED
  BY <1>1, <1>4, <1>5, <1>6 DEF t

\* The innermost callback moves on and keeps its timer.
LEMMA MoveFrame ==
  ASSUME NEW s \in Seq(Frame), GoodStack(s), s # <<>>,
         NEW f \in Frame, f.timer = s[1].timer, f.what # "resume" => f.messages = <<>>
  PROVE  /\ [s EXCEPT ![1] = f] \in Seq(Frame)
         /\ GoodStack([s EXCEPT ![1] = f])
         /\ TimersOf([s EXCEPT ![1] = f]) = TimersOf(s)
         /\ MessagesOf([s EXCEPT ![1] = f]) = f.messages
<1> DEFINE t == [s EXCEPT ![1] = f]
<1>1. Len(s) \in Nat /\ Len(s) >= 1 /\ 1 \in 1 .. Len(s)
  OBVIOUS
<1>2. /\ t \in Seq(Frame) /\ Len(t) = Len(s)
      /\ \A j \in 1 .. Len(s) : t[j] = IF j = 1 THEN f ELSE s[j]
  BY <1>1, ExceptSeq
<1> HIDE DEF t
<1>3. \A i \in 1 .. Len(s) : t[i].timer = s[i].timer
  BY <1>2
<1>4. GoodStack(t)
  BY <1>2, <1>3 DEF GoodStack
<1>5. TimersOf(t) = TimersOf(s)
  BY <1>2, <1>3 DEF TimersOf
<1>6. MessagesOf(t) = f.messages
  <2>1. t # <<>> /\ Head(t) = t[1]
    BY <1>1, <1>2
  <2> QED
    BY <1>1, <1>2, <2>1 DEF MessagesOf
<1> QED
  BY <1>2, <1>4, <1>5, <1>6 DEF t

-----------------------------------------------------------------------------
(* Messages and timers.                                                      *)

\* The messages of the slice that runs.
SliceMessages == IF sim = "run" THEN m_pauseMessages ELSE <<>>

\* MessagesShownOnce depends on five places only.
LEMMA MessagesKept ==
  ASSUME MessagesShownOnce,
         UNCHANGED <<dialogs, pause_messages, raised>>,
         MessagesOf(gui)' = MessagesOf(gui), SliceMessages' = SliceMessages
  PROVE  MessagesShownOnce'
BY DEF MessagesShownOnce, MessagesOf, SliceMessages, Top

UpTo(n) == [i \in 1 .. n |-> i]

\* Concatenation of sequences of messages is associative.
LEMMA MessagesAssociative ==
  ASSUME NEW s \in Seq(Nat), NEW t \in Seq(Nat), NEW u \in Seq(Nat)
  PROVE  (s \o t) \o u = s \o (t \o u)
<1> DEFINE N == Nat
<1>1. s \in Seq(N) /\ t \in Seq(N) /\ u \in Seq(N)
  OBVIOUS
<1> HIDE DEF N
<1> QED
  BY <1>1, ConcatAssociative, SMTT(30)

\* Concatenation of sequences of messages gives such a sequence.
LEMMA MessagesConcat ==
  ASSUME NEW s \in Seq(Nat), NEW t \in Seq(Nat)
  PROVE  s \o t \in Seq(Nat)
OBVIOUS

\* The empty sequence adds no message.
LEMMA MessagesEmpty ==
  ASSUME NEW s \in Seq(Nat)
  PROVE  s \o <<>> = s
<1> DEFINE N == Nat
<1>1. s \in Seq(N)
  OBVIOUS
<1> HIDE DEF N
<1> QED
  BY <1>1, ConcatEmptySeq

\* A message raised next is the next number, behind all the others.
LEMMA AppendNext ==
  ASSUME NEW s \in Seq(Nat), NEW t \in Seq(Nat), NEW n \in Nat, s \o t = UpTo(n)
  PROVE  s \o Append(t, n + 1) = UpTo(n + 1)
<1> DEFINE N == Nat
           u == Append(t, n + 1)
           c == UpTo(n)
           e == UpTo(n + 1)
<1>1. /\ u \in Seq(N) /\ Len(u) = Len(t) + 1 /\ Len(t) \in Nat /\ Len(s) \in Nat
      /\ \A i \in 1 .. Len(t) : u[i] = t[i]
      /\ u[Len(t) + 1] = n + 1
      /\ s \in Seq(N) /\ t \in Seq(N)
  OBVIOUS
<1>2. /\ c \in Seq(N) /\ Len(c) = n /\ \A i \in 1 .. n : c[i] = i
      /\ e \in Seq(N) /\ Len(e) = n + 1 /\ \A i \in 1 .. n + 1 : e[i] = i
  BY DEF UpTo
<1> HIDE DEF N, u, c, e
<1>3. /\ Len(s \o t) = Len(s) + Len(t)
      /\ \A i \in 1 .. Len(s) + Len(t) : (s \o t)[i] = IF i <= Len(s) THEN s[i] ELSE t[i - Len(s)]
  BY <1>1, ConcatProperties
<1>4. s \o t = c
  BY DEF c
<1>5. Len(s) + Len(t) = n
  BY <1>2, <1>3, <1>4
<1>6. /\ s \o u \in Seq(N)
      /\ Len(s \o u) = Len(s) + Len(u)
      /\ \A i \in 1 .. Len(s) + Len(u) : (s \o u)[i] = IF i <= Len(s) THEN s[i] ELSE u[i - Len(s)]
  BY <1>1, ConcatProperties
<1>7. Len(s) + Len(u) = n + 1
  <2>1. Len(u) = Len(t) + 1 /\ Len(t) \in Nat /\ Len(s) \in Nat
    BY <1>1
  <2> DEFINE a == Len(s)
             b == Len(t)
             d == Len(u)
  <2>2. d = b + 1 /\ b \in Nat /\ a \in Nat /\ a + b = n
    BY <2>1, <1>5
  <2> HIDE DEF a, b, d
  <2>3. a + d = n + 1
    BY <2>2
  <2> QED
    BY <2>3 DEF a, b, d
<1>8. ASSUME NEW i \in 1 .. n + 1
      PROVE  (s \o u)[i] = i
  <2>1. CASE i = n + 1
    <3>1. ~ (i <= Len(s)) /\ i - Len(s) = Len(t) + 1
      BY <1>1, <1>5, <2>1
    <3>2. (s \o u)[i] = u[Len(t) + 1]
      BY <1>6, <1>7, <3>1
    <3> QED
      BY <1>1, <2>1, <3>2
  <2>2. CASE i \in 1 .. n
    <3>1. c[i] = i /\ c[i] = IF i <= Len(s) THEN s[i] ELSE t[i - Len(s)]
      BY <1>2, <1>3, <1>4, <1>5, <2>2
    <3>2. (s \o u)[i] = IF i <= Len(s) THEN s[i] ELSE u[i - Len(s)]
      BY <1>6, <1>7
    <3>3. CASE i <= Len(s)
      BY <3>1, <3>2, <3>3
    <3>4. CASE ~ (i <= Len(s))
      <4>1. i - Len(s) \in 1 .. Len(t)
        BY <1>1, <1>5, <2>2, <3>4
      <4> QED
        BY <1>1, <3>1, <3>2, <3>4, <4>1
    <3> QED
      BY <3>3, <3>4
  <2>3. i = n + 1 \/ i \in 1 .. n
    OBVIOUS
  <2> QED
    BY <2>1, <2>2, <2>3
<1>9. Len(s \o u) = Len(e) /\ \A i \in 1 .. Len(s \o u) : (s \o u)[i] = e[i]
  BY <1>2, <1>6, <1>7, <1>8, SMTT(30)
<1>10. s \o u = e
  BY <1>2, <1>6, <1>9, SeqEqual
<1> QED
  BY <1>10 DEF u, e

\* The timers of the callbacks under way, in terms of the stack.
LEMMA InCallTimers ==
  ASSUME NEW s \in Seq(Frame)
  PROVE  {s[i].timer : i \in DOMAIN s} = TimersOf(s)
<1>1. DOMAIN s = 1 .. Len(s)
  OBVIOUS
<1> QED
  BY <1>1 DEF TimersOf

\* While the user may still act there is a source id to spare.
LEMMA FreshTimer ==
  ASSUME Types, FewTimers, done < MaxUser
  PROVE  Fresh \in Timer /\ Fresh \notin timers \cup InCall \cup {update_timeout_id}
<1>1. MaxUser \in Nat /\ done \in Nat /\ None \notin Timer
  BY VisualizerAssumption DEF Types, Timer
<1>2. IsFiniteSet(Timer) /\ Cardinality(Timer) = MaxUser + 3
  <2>1. 1 \in Int /\ MaxUser + 3 \in Int /\ ~ (1 > MaxUser + 3) /\ MaxUser + 3 - 1 + 1 = MaxUser + 3
    BY <1>1
  <2> QED
    BY <2>1, FS_Interval DEF Timer
<1>3. ~ (Timer \subseteq Used)
  <2> SUFFICES ASSUME Timer \subseteq Used
               PROVE  FALSE
    OBVIOUS
  <2>1. IsFiniteSet(Used) /\ Cardinality(Used) \in Nat /\ Cardinality(Used) <= done + 1
    BY FS_CardinalityType DEF FewTimers
  <2>2. Cardinality(Timer) <= Cardinality(Used)
    BY <2>1, FS_Subset
  <2> QED
    BY <1>1, <1>2, <2>1, <2>2
<1>4. PICK t \in Timer : t \notin Used
  BY <1>3
<1>5. t \notin timers \cup InCall \cup {update_timeout_id}
  BY <1>1, <1>4 DEF Used
<1> QED
  BY <1>5 DEF Fresh

\* The sources in use stay few when none is added.
LEMMA NoNewTimer ==
  ASSUME FewTimers, done \in Nat, Used' \subseteq Used, done' \in {done, done + 1}
  PROVE  FewTimers'
<1>1. IsFiniteSet(Used) /\ Cardinality(Used) \in Nat /\ Cardinality(Used) <= done + 1
  BY FS_CardinalityType DEF FewTimers
<1>2. IsFiniteSet(Used') /\ Cardinality(Used') <= Cardinality(Used)
  BY <1>1, FS_Subset
<1>3. Cardinality(Used') \in Nat
  BY <1>2, FS_CardinalityType
<1> QED
  BY <1>1, <1>2, <1>3 DEF FewTimers

-----------------------------------------------------------------------------
(* The simulation thread.                                                    *)

\* The thread moves between its tests, without the lock.
LEMMA ThreadStep ==
  ASSUME Inv, TestQuit \/ WaitGo \/ ClearGo \/ CheckQuit
  PROVE  Inv'
<1>1. /\ UNCHANGED <<locked, now, m_pauseMessages, raised, quit, target_time, pause_messages,
                     timers, update_timeout_id, shown, dialogs, gui, playing, sample_period, done>>
      /\ sim # "run" /\ sim' \in {"ended", "wait", "clear", "check", "lock"}
  BY DEF TestQuit, WaitGo, ClearGo, CheckQuit, guiSide, sharedVars, timerVars, viewVars
<1>2. Types'
  BY <1>1 DEF Inv, Types
<1>3. MessagesShownOnce'
  <2>1. MessagesOf(gui)' = MessagesOf(gui) /\ SliceMessages' = SliceMessages
    BY <1>1 DEF MessagesOf, SliceMessages
  <2> QED
    BY <1>1, <2>1, MessagesKept DEF Inv
<1>4. Stack' /\ Ahead' /\ TimerWhilePlaying'
  BY <1>1 DEF Inv, Stack, Ahead, TimerWhilePlaying
<1>5. FewTimers'
  BY <1>1 DEF Inv, FewTimers, Used, InCall
<1> QED
  BY <1>2, <1>3, <1>4, <1>5 DEF Inv

\* The slice takes the lock, advances and ends.
LEMMA SliceStep ==
  ASSUME Inv, BeginSlice \/ Simulate \/ StopInSlice \/ EndSlice
  PROVE  Inv'
<1>1. UNCHANGED <<quit, target_time, timers, update_timeout_id, shown, dialogs, gui, playing,
                  sample_period, done>>
  BY DEF BeginSlice, Simulate, StopInSlice, EndSlice, HandOver, guiSide, sharedVars, timerVars, viewVars
<1>2. Stack' /\ TimerWhilePlaying'
  BY <1>1 DEF Inv, Stack, TimerWhilePlaying
<1>3. FewTimers'
  BY <1>1 DEF Inv, FewTimers, Used, InCall
<1>4. /\ m_pauseMessages \in Seq(Nat) /\ pause_messages \in Seq(Nat) /\ dialogs \in Seq(Nat)
      /\ MessagesOf(gui) \in Seq(Nat) /\ MessagesOf(gui)' = MessagesOf(gui)
      /\ raised \in Nat
  <2>1. MessagesOf(gui) \in Seq(Nat)
    <3>1. CASE gui = <<>>
      BY <3>1 DEF MessagesOf
    <3>2. CASE gui # <<>>
      <4>1. Head(gui) \in Frame
        BY <3>2 DEF Inv, Types
      <4> QED
        BY <3>2, <4>1 DEF MessagesOf, Frame
    <3> QED
      BY <3>1, <3>2
  <2> QED
    BY <1>1, <2>1 DEF Inv, Types, MessagesOf
<1> DEFINE before == (dialogs \o MessagesOf(gui)) \o pause_messages
<1>5. before \o SliceMessages = UpTo(raised) /\ before \in Seq(Nat)
  <2>1. before \o SliceMessages = UpTo(raised)
    BY DEF Inv, MessagesShownOnce, MessagesOf, SliceMessages, Top, UpTo
  <2>2. dialogs \o MessagesOf(gui) \in Seq(Nat)
    BY <1>4
  <2>3. before \in Seq(Nat)
    BY <1>4, <2>2
  <2> QED
    BY <2>1, <2>3
<1>6. CASE BeginSlice
  <2>1. /\ UNCHANGED <<now, raised, pause_messages>> /\ sim = "lock" /\ sim' = "run" /\ locked' = TRUE
        /\ m_pauseMessages' = <<>>
    BY <1>6 DEF BeginSlice, guiSide, sharedVars
  <2>2. Types' /\ Ahead'
    <3>1. locked' = (sim' = "run")
      BY <2>1
    <3>2. <<>> \in Seq(Nat)
      OBVIOUS
    <3> QED
      BY <1>1, <2>1, <3>1, <3>2 DEF Inv, Types, Ahead
  <2>3. SliceMessages' = SliceMessages
    BY <2>1 DEF SliceMessages
  <2>4. MessagesShownOnce'
    BY <1>1, <1>4, <2>1, <2>3, MessagesKept DEF Inv
  <2> QED
    BY <1>2, <1>3, <2>2, <2>4 DEF Inv
<1>7. ASSUME Advance
      PROVE  /\ sim = "run" /\ now < target_time
             /\ now' \in 0 .. MaxTime /\ m_pauseMessages' \in Seq(Nat) /\ raised' \in Nat
             /\ Ahead'
             /\ before \o m_pauseMessages' = UpTo(raised')
  <2>1. /\ sim = "run" /\ now < target_time
        /\ now' = now + 1
        /\ \/ UNCHANGED <<m_pauseMessages, raised>>
           \/ raised' = raised + 1 /\ m_pauseMessages' = Append(m_pauseMessages, raised + 1)
    BY <1>7 DEF Advance
  <2>2. /\ now \in Nat /\ target_time \in Nat /\ MaxTime \in Nat /\ shown \in Nat
        /\ target_time <= MaxTime
    BY VisualizerAssumption DEF Inv, Types
  <2>3. now' \in 0 .. MaxTime
    BY <2>1, <2>2
  <2>4. m_pauseMessages' \in Seq(Nat) /\ raised' \in Nat
    <3>1. raised + 1 \in Nat /\ Append(m_pauseMessages, raised + 1) \in Seq(Nat)
      BY <1>4
    <3> QED
      BY <1>4, <2>1, <3>1
  <2>5. Ahead'
    <3>1. PICK p \in Periods : now <= shown + p /\ target_time <= shown + p
      BY DEF Inv, Ahead
    <3>2. p \in Nat
      BY VisualizerAssumption
    <3>3. now + 1 <= shown + p /\ now + 1 >= shown
      BY <2>1, <2>2, <3>1, <3>2 DEF Inv, Ahead
    <3> QED
      BY <1>1, <2>1, <3>1, <3>3 DEF Ahead
  <2>6. before \o m_pauseMessages' = UpTo(raised')
    <3> HIDE DEF before
    <3>1. before \o m_pauseMessages = UpTo(raised)
      BY <1>5, <2>1 DEF SliceMessages
    <3>2. before \o Append(m_pauseMessages, raised + 1) = UpTo(raised + 1)
      BY <1>4, <1>5, <3>1, AppendNext
    <3> QED
      BY <2>1, <3>1, <3>2
  <2> QED
    BY <2>1, <2>3, <2>4, <2>5, <2>6
<1>8. ASSUME NEW m \in Seq(Nat), before \o m = UpTo(raised'), HandOver(m)
      PROVE  pause_messages' \in Seq(Nat) /\ MessagesShownOnce'
  <2>1. sim' = "test" /\ pause_messages' = pause_messages \o m
    BY <1>8 DEF HandOver
  <2>2. pause_messages' \in Seq(Nat)
    BY <1>4, <2>1
  <2>3. PICK d \in Seq(Nat) : d = dialogs \o MessagesOf(gui)
    BY <1>4, MessagesConcat
  <2>4. (d \o pause_messages) \o m = UpTo(raised')
    BY <1>8, <2>3
  <2>5. d \o (pause_messages \o m) = UpTo(raised')
    <3>1. pause_messages \in Seq(Nat)
      BY <1>4
    <3>2. (d \o pause_messages) \o m = d \o (pause_messages \o m)
      BY <3>1, MessagesAssociative
    <3> QED
      BY <2>4, <3>2
  <2>6. d \o pause_messages' \in Seq(Nat)
    BY <2>2
  <2>7. (d \o pause_messages') \o <<>> = d \o pause_messages'
    BY <2>6, MessagesEmpty
  <2>8. (d \o pause_messages') \o <<>> = UpTo(raised')
    BY <2>1, <2>5, <2>7
  <2>9. ((dialogs' \o MessagesOf(gui)') \o pause_messages') \o <<>> = UpTo(raised')
    BY <1>1, <1>4, <2>3, <2>8
  <2> QED
    BY <2>1, <2>2, <2>9 DEF MessagesShownOnce, MessagesOf, Top, UpTo
<1>9. CASE Simulate
  <2>1. Advance /\ UNCHANGED <<sim, locked, pause_messages>>
    BY <1>9 DEF Simulate, guiSide, sharedVars
  <2>2. Types' /\ Ahead'
    BY <1>1, <1>7, <2>1 DEF Inv, Types
  <2>3. ((dialogs' \o MessagesOf(gui)') \o pause_messages') \o m_pauseMessages' = UpTo(raised')
    BY <1>1, <1>4, <1>7, <2>1
  <2>4. MessagesShownOnce'
    BY <1>7, <2>1, <2>3 DEF MessagesShownOnce, MessagesOf, Top, UpTo
  <2> QED
    BY <1>2, <1>3, <2>2, <2>4 DEF Inv
<1>10. CASE StopInSlice
  <2>1. Advance /\ HandOver(m_pauseMessages')
    BY <1>10 DEF StopInSlice
  <2>2. locked' = FALSE /\ sim' = "test"
    BY <2>1 DEF HandOver
  <2> HIDE DEF before
  <2>3. pause_messages' \in Seq(Nat) /\ MessagesShownOnce'
    BY <1>7, <1>8, <2>1
  <2>4. Types' /\ Ahead'
    BY <1>1, <1>7, <2>1, <2>2, <2>3 DEF Inv, Types
  <2> QED
    BY <1>2, <1>3, <2>3, <2>4 DEF Inv
<1>11. CASE EndSlice
  <2>1. UNCHANGED <<now, m_pauseMessages, raised>> /\ sim = "run" /\ HandOver(m_pauseMessages)
    BY <1>11 DEF EndSlice
  <2>2. locked' = FALSE /\ sim' = "test"
    BY <2>1 DEF HandOver
  <2>3. before \o m_pauseMessages = UpTo(raised')
    BY <1>5, <2>1 DEF SliceMessages
  <2> HIDE DEF before
  <2>4. pause_messages' \in Seq(Nat) /\ MessagesShownOnce'
    BY <1>4, <1>8, <2>1, <2>3
  <2>5. Types' /\ Ahead'
    BY <1>1, <2>1, <2>2, <2>4 DEF Inv, Types, Ahead
  <2> QED
    BY <1>2, <1>3, <2>4, <2>5 DEF Inv
<1> QED
  BY <1>6, <1>9, <1>10, <1>11

-----------------------------------------------------------------------------
(* The GUI thread.                                                           *)

\* A callback begins: the time and the messages stay, and the sources in use are
\* those there were.
LEMMA PushStep ==
  ASSUME Inv, \/ \E t \in timers : UpdateViewTimeout(t)
              \/ UpdateModel \/ AskSimulator \/ Quit
  PROVE  Inv'
<1>1. PICK x \in What \ {"resume"}, t \in timers \cup {None} :
        /\ gui' = <<Call(x, t)>> \o gui
        /\ t # None => t \notin InCall
  <2>1. CASE \E t \in timers : UpdateViewTimeout(t)
    BY <2>1 DEF UpdateViewTimeout, What
  <2>2. CASE UpdateModel \/ AskSimulator \/ Quit
    BY <2>2 DEF UpdateModel, AskSimulator, Quit, What
  <2> QED
    BY <2>1, <2>2
<1>2. /\ UNCHANGED <<sim, locked, now, m_pauseMessages, raised, target_time, pause_messages, shown,
                     dialogs, playing, sample_period>>
      /\ Dispatches
      /\ timers' \subseteq timers /\ update_timeout_id' \in {update_timeout_id, None}
      /\ quit' = TRUE \/ UNCHANGED <<quit, timers>>
      /\ done' \in {done, done + 1}
  BY DEF UpdateViewTimeout, UpdateModel, AskSimulator, Quit, UserActs, simVars, sharedVars,
         timerVars, viewVars
<1>4. /\ gui \in Seq(Frame) /\ GoodStack(gui)
      /\ InCall = TimersOf(gui)
  BY InCallTimers DEF Inv, Types, Stack, InCall
<1> DEFINE f == Call(x, t)
<1>5. f \in Frame /\ f.what # "resume" /\ f.messages = <<>> /\ f.timer = t
  BY DEF Call, Frame, Inv, Types
<1> HIDE DEF f
<1>6. /\ gui' \in Seq(Frame)
      /\ GoodStack(gui')
      /\ TimersOf(gui') = TimersOf(gui) \cup {t}
      /\ MessagesOf(gui') = MessagesOf(gui)
  <2>1. gui # <<>> => Head(gui).what = "spin"
    BY <1>2 DEF Dispatches, Top
  <2>2. f.timer # None => f.timer \notin TimersOf(gui)
    BY <1>1, <1>4, <1>5
  <2>3. /\ <<f>> \o gui \in Seq(Frame)
        /\ GoodStack(<<f>> \o gui)
        /\ TimersOf(<<f>> \o gui) = TimersOf(gui) \cup {f.timer}
        /\ MessagesOf(<<f>> \o gui) = MessagesOf(gui)
    BY <1>4, <1>5, <2>1, <2>2, PushFrame
  <2>4. gui' = <<f>> \o gui
    BY <1>1 DEF f
  <2> QED
    BY <1>5, <2>3, <2>4
<1>7. InCall' = InCall \cup {t}
  BY <1>4, <1>6, InCallTimers DEF InCall
<1>8. done' \in Nat
  BY <1>2 DEF Inv, Types
<1>9. Types'
  BY <1>2, <1>6, <1>8 DEF Inv, Types
<1>10. MessagesShownOnce'
  <2>1. MessagesOf(gui)' = MessagesOf(gui) /\ SliceMessages' = SliceMessages
    BY <1>2, <1>6 DEF SliceMessages
  <2> QED
    BY <1>2, <2>1, MessagesKept DEF Inv
<1>11. Ahead' /\ TimerWhilePlaying'
  BY <1>2 DEF Inv, Ahead, TimerWhilePlaying
<1>12. FewTimers'
  <2>1. Used' \subseteq Used
    BY <1>2, <1>7 DEF Used
  <2>2. done \in Nat
    BY DEF Inv, Types
  <2> QED
    BY <1>2, <2>1, <2>2, NoNewTimer DEF Inv
<1> QED
  BY <1>6, <1>9, <1>10, <1>11, <1>12 DEF Inv, Stack

\* The innermost callback goes on, without taking messages or the lock.
LEMMA MoveStep ==
  ASSUME Inv, gui # <<>>, Top.what \in {"try", "spin", "quit"},
         NEW x \in What \ {"resume"}, gui' = [gui EXCEPT ![1].what = x],
         UNCHANGED <<simVars, quit, target_time, pause_messages, timerVars, viewVars, playing,
                     sample_period, done>>
  PROVE  Inv'
<1>1. /\ UNCHANGED <<sim, locked, now, m_pauseMessages, raised, quit, target_time, pause_messages,
                     timers, update_timeout_id, shown, dialogs, playing, sample_period, done>>
  BY DEF simVars, timerVars, viewVars
<1>2. /\ gui \in Seq(Frame) /\ GoodStack(gui)
      /\ 1 \in 1 .. Len(gui) /\ Head(gui) = gui[1]
      /\ gui[1] \in Frame /\ DOMAIN gui = 1 .. Len(gui)
  BY DEF Inv, Types, Stack
<1>3. gui[1].messages = <<>> /\ MessagesOf(gui) = <<>>
  BY <1>2 DEF GoodStack, Top, MessagesOf
<1> DEFINE f == [gui[1] EXCEPT !.what = x]
<1>4. gui' = [gui EXCEPT ![1] = f]
  OBVIOUS
<1>5. /\ gui' \in Seq(Frame)
      /\ GoodStack(gui')
      /\ TimersOf(gui') = TimersOf(gui)
      /\ MessagesOf(gui') = <<>>
  <2>1. f \in Frame /\ f.timer = gui[1].timer /\ f.messages = <<>>
    BY <1>2, <1>3 DEF Frame
  <2> HIDE DEF f
  <2>2. /\ [gui EXCEPT ![1] = f] \in Seq(Frame)
        /\ GoodStack([gui EXCEPT ![1] = f])
        /\ TimersOf([gui EXCEPT ![1] = f]) = TimersOf(gui)
        /\ MessagesOf([gui EXCEPT ![1] = f]) = f.messages
    BY <1>2, <2>1, MoveFrame
  <2> QED
    BY <1>4, <2>1, <2>2
<1>6. InCall' = InCall
  BY <1>2, <1>5, InCallTimers DEF InCall
<1>7. Types'
  BY <1>1, <1>5 DEF Inv, Types
<1>8. MessagesShownOnce'
  <2>1. MessagesOf(gui)' = MessagesOf(gui) /\ SliceMessages' = SliceMessages
    BY <1>1, <1>3, <1>5 DEF SliceMessages
  <2> QED
    BY <1>1, <2>1, MessagesKept DEF Inv
<1>9. Ahead' /\ TimerWhilePlaying' /\ FewTimers'
  BY <1>1, <1>6 DEF Inv, Ahead, TimerWhilePlaying, FewTimers, Used
<1> QED
  BY <1>5, <1>7, <1>8, <1>9 DEF Inv, Stack

\* The timer's callback has the lock: it takes the messages that were handed over,
\* shows the time reached and sets the target one period past it.
LEMMA TakeStep ==
  ASSUME Inv, TryLock, ~ locked
  PROVE  Inv'
<1>1. /\ UNCHANGED <<sim, locked, now, m_pauseMessages, raised, quit, timers, update_timeout_id,
                     dialogs, playing, sample_period, done>>
      /\ gui # <<>> /\ Top.what = "try"
      /\ gui' = [gui EXCEPT ![1].what = "resume", ![1].messages = pause_messages]
      /\ pause_messages' = <<>> /\ shown' = now /\ target_time' = NextTarget
  BY DEF TryLock, simVars, timerVars
<1>2. /\ gui \in Seq(Frame) /\ GoodStack(gui)
      /\ 1 \in 1 .. Len(gui) /\ Head(gui) = gui[1] /\ gui[1] \in Frame
      /\ pause_messages \in Seq(Nat) /\ dialogs \in Seq(Nat)
  BY <1>1 DEF Inv, Types, Stack
<1>3. MessagesOf(gui) = <<>>
  BY <1>1, <1>2 DEF GoodStack, Top, MessagesOf
<1> DEFINE f == [gui[1] EXCEPT !.what = "resume", !.messages = pause_messages]
<1>4. gui' = [gui EXCEPT ![1] = f]
  BY <1>1
<1>5. /\ gui' \in Seq(Frame)
      /\ GoodStack(gui')
      /\ TimersOf(gui') = TimersOf(gui)
      /\ MessagesOf(gui') = pause_messages
  <2>1. /\ f \in Frame /\ f.timer = gui[1].timer /\ f.what = "resume"
        /\ f.messages = pause_messages
    BY <1>2 DEF Frame, What
  <2> HIDE DEF f
  <2>2. /\ [gui EXCEPT ![1] = f] \in Seq(Frame)
        /\ GoodStack([gui EXCEPT ![1] = f])
        /\ TimersOf([gui EXCEPT ![1] = f]) = TimersOf(gui)
        /\ MessagesOf([gui EXCEPT ![1] = f]) = f.messages
    BY <1>1, <1>2, <2>1, MoveFrame
  <2> QED
    BY <1>4, <2>1, <2>2
<1> HIDE DEF f
<1>6. InCall' = InCall
  BY <1>2, <1>5, InCallTimers DEF InCall
<1>7. /\ now \in Nat /\ MaxTime \in Nat /\ now <= MaxTime
      /\ sample_period \in Nat /\ sample_period \in Periods
  BY VisualizerAssumption DEF Inv, Types
<1>8. target_time' \in 0 .. MaxTime /\ target_time' <= now + sample_period
  BY <1>1, <1>7 DEF NextTarget, AtMost
<1>9. Types'
  <2>1. <<>> \in Seq(Nat)
    OBVIOUS
  <2> QED
    BY <1>1, <1>5, <1>8, <2>1 DEF Inv, Types
<1>10. Ahead'
  <2>1. now >= now /\ now <= now + sample_period
    BY <1>7
  <2> QED
    BY <1>1, <1>7, <1>8, <2>1 DEF Ahead
<1>11. MessagesShownOnce'
  <2>1. ((dialogs \o <<>>) \o pause_messages) \o SliceMessages = UpTo(raised)
    BY <1>3 DEF Inv, MessagesShownOnce, MessagesOf, SliceMessages, Top, UpTo
  <2>2. dialogs \o <<>> = dialogs
    BY <1>2, MessagesEmpty
  <2>3. (dialogs \o pause_messages) \o <<>> = dialogs \o pause_messages
    <3>1. dialogs \o pause_messages \in Seq(Nat)
      BY <1>2, MessagesConcat
    <3> QED
      BY <3>1, MessagesEmpty
  <2>4. ((dialogs \o pause_messages) \o <<>>) \o SliceMessages = UpTo(raised)
    BY <2>1, <2>2, <2>3
  <2>5. SliceMessages' = SliceMessages
    BY <1>1 DEF SliceMessages
  <2>6. ((dialogs' \o MessagesOf(gui')) \o pause_messages') \o SliceMessages' = UpTo(raised')
    BY <1>1, <1>5, <2>4, <2>5
  <2> QED
    BY <2>6 DEF MessagesShownOnce, MessagesOf, SliceMessages, Top, UpTo
<1>12. FewTimers' /\ TimerWhilePlaying'
  BY <1>1, <1>6 DEF Inv, TimerWhilePlaying, FewTimers, Used
<1> QED
  BY <1>5, <1>9, <1>10, <1>11, <1>12 DEF Inv, Stack

\* A callback returns; the timer's callback shows its messages first.
LEMMA PopStep ==
  ASSUME Inv, Resume \/ WithLock \/ Join
  PROVE  Inv'
<1>1. /\ UNCHANGED <<sim, locked, now, m_pauseMessages, raised, quit, target_time, pause_messages,
                     shown, sample_period, done>>
      /\ gui # <<>> /\ Top.what \in {"resume", "block", "join"}
      /\ gui' = Tail(gui)
      /\ timers' \subseteq timers /\ update_timeout_id' \in {update_timeout_id, None}
  BY DEF Resume, WithLock, Join, simVars, sharedVars, timerVars, viewVars
<1>2. /\ gui \in Seq(Frame) /\ GoodStack(gui)
      /\ 1 \in 1 .. Len(gui) /\ Head(gui) = gui[1] /\ gui[1] \in Frame
      /\ pause_messages \in Seq(Nat) /\ dialogs \in Seq(Nat)
  BY <1>1 DEF Inv, Types, Stack
<1>3. /\ MessagesOf(gui) = gui[1].messages /\ gui[1].messages \in Seq(Nat)
      /\ Top.what # "resume" => gui[1].messages = <<>>
  BY <1>1, <1>2 DEF GoodStack, Top, MessagesOf, Frame
<1>4. /\ gui' \in Seq(Frame)
      /\ GoodStack(gui')
      /\ TimersOf(gui') \subseteq TimersOf(gui)
      /\ MessagesOf(gui') = <<>>
  BY <1>1, <1>2, PopFrame
<1>5. InCall' \subseteq InCall
  BY <1>2, <1>4, InCallTimers DEF InCall
<1>6. dialogs' = dialogs \o gui[1].messages
  <2>1. CASE Resume
    BY <1>2, <2>1 DEF Resume, Top
  <2>2. CASE WithLock \/ Join
    <3>1. dialogs' = dialogs /\ gui[1].messages = <<>>
      BY <1>2, <1>3, <2>2 DEF WithLock, Join, Top, viewVars
    <3>2. dialogs \o <<>> = dialogs
      BY <1>2, MessagesEmpty
    <3> QED
      BY <3>1, <3>2
  <2> QED
    BY <2>1, <2>2
<1>7. dialogs' \in Seq(Nat)
  BY <1>2, <1>3, <1>6, MessagesConcat
<1>8. playing' \in BOOLEAN /\ (playing' => playing /\ timers' = timers)
  <2>1. playing \in BOOLEAN
    BY DEF Inv, Types
  <2>2. CASE Resume
    BY <2>1, <2>2 DEF Resume, timerVars
  <2>3. CASE WithLock \/ Join
    BY <2>1, <2>3 DEF WithLock, Join, timerVars
  <2> QED
    BY <2>2, <2>3
<1>9. Types'
  BY <1>1, <1>4, <1>7, <1>8 DEF Inv, Types
<1>10. MessagesShownOnce'
  <2>1. ((dialogs \o gui[1].messages) \o pause_messages) \o SliceMessages = UpTo(raised)
    BY <1>3 DEF Inv, MessagesShownOnce, MessagesOf, SliceMessages, Top, UpTo
  <2>2. dialogs' \o <<>> = dialogs'
    BY <1>7, MessagesEmpty
  <2>3. SliceMessages' = SliceMessages
    BY <1>1 DEF SliceMessages
  <2>4. ((dialogs' \o MessagesOf(gui')) \o pause_messages') \o SliceMessages' = UpTo(raised')
    BY <1>1, <1>4, <1>6, <2>1, <2>2, <2>3
  <2> QED
    BY <2>4 DEF MessagesShownOnce, MessagesOf, SliceMessages, Top, UpTo
<1>11. Ahead' /\ TimerWhilePlaying'
  BY <1>1, <1>8 DEF Inv, Ahead, TimerWhilePlaying
<1>12. FewTimers'
  <2>1. Used' \subseteq Used /\ done \in Nat
    BY <1>1, <1>5 DEF Used, Inv, Types
  <2> QED
    BY <1>1, <2>1, NoNewTimer DEF Inv
<1> QED
  BY <1>4, <1>9, <1>10, <1>11, <1>12 DEF Inv, Stack

\* The user presses the play button or changes the speed: a timer is removed, or
\* replaced by a fresh one.
LEMMA UserStep ==
  ASSUME Inv, PlayButtonToggled \/ SpeedChanged
  PROVE  Inv'
<1>1. /\ UNCHANGED <<sim, locked, now, m_pauseMessages, raised, quit, target_time, pause_messages,
                     shown, dialogs, gui>>
      /\ done < MaxUser /\ done' = done + 1
      /\ playing' \in {playing, ~ playing} /\ sample_period' \in Periods
  BY DEF PlayButtonToggled, SpeedChanged, UserActs, simVars, sharedVars, viewVars, Inv, Types
<1>2. \/ timers' \subseteq timers /\ update_timeout_id' = update_timeout_id /\ playing' = FALSE
      \/ /\ timers' = (timers \ {update_timeout_id}) \cup {Fresh}
         /\ update_timeout_id' = Fresh
  BY DEF PlayButtonToggled, SpeedChanged, StartUpdateTimer, Inv, Types
<1>3. Fresh \in Timer
  BY <1>1, FreshTimer DEF Inv
<1>4. timers' \subseteq Timer /\ update_timeout_id' \in Timer \cup {None}
  BY <1>2, <1>3 DEF Inv, Types
<1>5. playing' \in BOOLEAN /\ done \in Nat /\ done' \in Nat
  <2>1. playing \in BOOLEAN /\ done \in Nat
    BY DEF Inv, Types
  <2>2. playing' \in BOOLEAN
    BY <1>1, <2>1, Zenon
  <2>3. done' \in Nat
    BY <1>1, <2>1
  <2> QED
    BY <2>1, <2>2, <2>3
<1>6. Types'
  BY <1>1, <1>4, <1>5 DEF Inv, Types
<1>7. MessagesShownOnce'
  <2>1. MessagesOf(gui)' = MessagesOf(gui) /\ SliceMessages' = SliceMessages
    BY <1>1 DEF MessagesOf, SliceMessages
  <2> QED
    BY <1>1, <2>1, MessagesKept DEF Inv
<1>8. Stack' /\ Ahead'
  BY <1>1 DEF Inv, Stack, Ahead
<1>9. TimerWhilePlaying'
  BY <1>2 DEF TimerWhilePlaying
<1>10. FewTimers'
  <2>1. InCall' = InCall
    BY <1>1 DEF InCall
  <2>2. Used' \subseteq Used \cup {Fresh}
    BY <1>2, <2>1 DEF Used
  <2>3. IsFiniteSet(Used) /\ Cardinality(Used) \in Nat /\ Cardinality(Used) <= done + 1
    BY FS_CardinalityType DEF Inv, FewTimers
  <2>4. IsFiniteSet(Used \cup {Fresh}) /\ Cardinality(Used \cup {Fresh}) <= Cardinality(Used) + 1
    BY <2>3, FS_AddElement
  <2>5. Cardinality(Used \cup {Fresh}) \in Nat
    BY <2>4, FS_CardinalityType
  <2>6. IsFiniteSet(Used') /\ Cardinality(Used') <= Cardinality(Used \cup {Fresh})
    BY <2>2, <2>4, FS_Subset
  <2>7. Cardinality(Used') \in Nat
    BY <2>6, FS_CardinalityType
  <2>8. Cardinality(Used') <= done' + 1
    BY <1>1, <1>5, <2>3, <2>4, <2>5, <2>6, <2>7
  <2> QED
    BY <2>6, <2>8 DEF FewTimers
<1> QED
  BY <1>6, <1>7, <1>8, <1>9, <1>10 DEF Inv

-----------------------------------------------------------------------------
(* The theorems.                                                             *)

\* The window has just been built.
LEMMA InvInit == Init => Inv
<1> SUFFICES ASSUME Init
             PROVE  Inv
  OBVIOUS
<1>1. MaxUser \in Nat /\ MaxTime \in Nat /\ None \notin Nat
  BY VisualizerAssumption
<1>2. 1 \in Timer
  BY <1>1 DEF Timer
<1>3. <<>> \in Seq(Nat) /\ <<>> \in Seq(Frame) /\ Len(<<>>) = 0
  OBVIOUS
<1>4. Types
  <2>1. locked = (sim = "run")
    BY DEF Init
  <2>2. 0 \in 0 .. MaxTime
    BY <1>1
  <2> QED
    BY <1>2, <1>3, <2>1, <2>2 DEF Init, Types
<1>5. Stack
  BY <1>3 DEF Init, Stack, GoodStack
<1>6. MessagesShownOnce
  <2>1. (<<>> \o <<>>) \o <<>> = <<>>
    BY <1>3, MessagesEmpty
  <2>2. ((<<>> \o <<>>) \o <<>>) \o <<>> = <<>>
    BY <1>3, <2>1, MessagesEmpty
  <2>3. [i \in 1 .. 0 |-> i] = <<>>
    OBVIOUS
  <2> QED
    BY <2>2, <2>3 DEF Init, MessagesShownOnce
<1>7. Ahead
  <2>1. PICK p \in Periods : p \in Nat
    BY VisualizerAssumption
  <2>2. 0 <= 0 + p /\ 0 >= 0
    BY <2>1
  <2> QED
    BY <2>2 DEF Init, Ahead
<1>8. FewTimers
  <2>1. InCall = {}
    BY <1>3 DEF Init, InCall
  <2>2. Used = {1}
    BY <1>1, <2>1 DEF Init, Used
  <2>3. IsFiniteSet({1}) /\ Cardinality({1}) = 1
    BY FS_Singleton
  <2>4. done = 0
    BY DEF Init
  <2> QED
    BY <2>2, <2>3, <2>4 DEF FewTimers
<1>9. TimerWhilePlaying
  BY DEF Init, TimerWhilePlaying
<1> QED
  BY <1>4, <1>5, <1>6, <1>7, <1>8, <1>9 DEF Inv

\* Every step of the two threads keeps the inductive invariant.
LEMMA InvNext == Inv /\ [Next]_vars => Inv'
<1> SUFFICES ASSUME Inv, [Next]_vars
             PROVE  Inv'
  OBVIOUS
<1>1. CASE run
  BY <1>1, ThreadStep, SliceStep DEF run
<1>2. CASE TryLock
  <2>1. CASE locked
    <3>1. locked \in BOOLEAN
      BY DEF Inv, Types
    <3>2. /\ gui # <<>> /\ Top.what = "try" /\ gui' = [gui EXCEPT ![1].what = "spin"]
          /\ UNCHANGED <<simVars, quit, target_time, pause_messages, timerVars, viewVars, playing,
                         sample_period, done>>
      BY <1>2, <2>1 DEF TryLock, viewVars
    <3>3. "spin" \in What \ {"resume"}
      BY DEF What
    <3> QED
      BY <3>2, <3>3, MoveStep
  <2>2. CASE ~ locked
    BY <1>2, <2>2, TakeStep
  <2> QED
    BY <2>1, <2>2
<1>3. CASE Spin
  <2>1. /\ gui # <<>> /\ Top.what = "spin" /\ gui' = [gui EXCEPT ![1].what = "try"]
        /\ UNCHANGED <<simVars, quit, target_time, pause_messages, timerVars, viewVars, playing,
                       sample_period, done>>
    BY <1>3 DEF Spin, sharedVars
  <2>2. "try" \in What \ {"resume"}
    BY DEF What
  <2> QED
    BY <2>1, <2>2, MoveStep
<1>4. CASE QuitGo
  <2>1. /\ gui # <<>> /\ Top.what = "quit" /\ gui' = [gui EXCEPT ![1].what = "join"]
        /\ UNCHANGED <<simVars, quit, target_time, pause_messages, timerVars, viewVars, playing,
                       sample_period, done>>
    BY <1>4 DEF QuitGo
  <2>2. "join" \in What \ {"resume"}
    BY DEF What
  <2> QED
    BY <2>1, <2>2, MoveStep
<1>5. CASE Resume \/ WithLock \/ Join
  BY <1>5, PopStep
<1>6. CASE Expire \/ UpdateModel \/ AskSimulator \/ Quit
  BY <1>6, PushStep DEF Expire
<1>7. CASE PlayButtonToggled \/ SpeedChanged
  BY <1>7, UserStep
<1>8. CASE UNCHANGED vars
  <2>1. UNCHANGED <<sim, locked, now, m_pauseMessages, raised, quit, target_time, pause_messages,
                    timers, update_timeout_id, shown, dialogs, gui, playing, sample_period, done>>
    BY <1>8 DEF vars, simVars, sharedVars, timerVars, viewVars
  <2>2. Types'
    BY <2>1 DEF Inv, Types
  <2>3. MessagesShownOnce'
    <3>1. MessagesOf(gui)' = MessagesOf(gui) /\ SliceMessages' = SliceMessages
      BY <2>1 DEF MessagesOf, SliceMessages
    <3> QED
      BY <2>1, <3>1, MessagesKept DEF Inv
  <2>4. Stack' /\ Ahead' /\ TimerWhilePlaying' /\ FewTimers'
    BY <2>1 DEF Inv, Stack, Ahead, TimerWhilePlaying, FewTimers, Used, InCall
  <2> QED
    BY <2>2, <2>3, <2>4 DEF Inv
<1> QED
  BY <1>1, <1>2, <1>3, <1>4, <1>5, <1>6, <1>7, <1>8 DEF Next, Callback, User

\* The inductive invariant holds in every reachable state of the visualizer.
LEMMA InvAlways == Spec => []Inv
BY InvInit, InvNext, PTL DEF Spec

\* The checked properties follow from the inductive invariant.
LEMMA InvImplies == Inv => TypeOK /\ MessagesShownOnce /\ NeverFarAhead /\ PlayingHasTimer
<1> SUFFICES ASSUME Inv
             PROVE  TypeOK /\ MessagesShownOnce /\ NeverFarAhead /\ PlayingHasTimer
  OBVIOUS
<1>1. TypeOK
  <2>1. DOMAIN gui = 1 .. Len(gui) /\ \A i \in 1 .. Len(gui) : gui[i] \in Frame
    BY DEF Inv, Types
  <2>2. \A i \in DOMAIN gui :
          /\ gui[i].what \in {"try", "spin", "resume", "block", "quit", "join"}
          /\ gui[i].timer \in Timer \cup {None}
          /\ i > 1 => gui[i].what = "spin"
          /\ \A j \in DOMAIN gui : (i # j /\ gui[i].timer # None) => gui[i].timer # gui[j].timer
    BY <2>1 DEF Inv, Stack, GoodStack, Frame, What
  <2> QED
    BY <2>2 DEF Inv, Types, TypeOK
<1>2. NeverFarAhead
  BY DEF Inv, Ahead, NeverFarAhead
<1>3. PlayingHasTimer
  BY DEF Inv, TimerWhilePlaying, PlayingHasTimer
<1> QED
  BY <1>1, <1>2, <1>3 DEF Inv

\* Type correctness of the visualizer: the lock is held exactly during a slice, and
\* in the nest of callbacks only the innermost one is not waiting and no timer
\* source is called twice at a time.
THEOREM VisualizerTypeCorrect == Spec => []TypeOK
BY InvAlways, InvImplies, PTL

\* Every message given to PyViz::Pause is shown exactly once and in order, however
\* callbacks nest and slices follow one another.
THEOREM MessagesShownOnceAlways == Spec => []MessagesShownOnce
BY InvAlways, InvImplies, PTL

\* The simulator never runs more than a sample period past what the view shows.
THEOREM NeverFarAheadAlways == Spec => []NeverFarAhead
BY InvAlways, InvImplies, PTL

\* While the play button is down a timer is attached that will give the next go.
THEOREM PlayingHasTimerAlways == Spec => []PlayingHasTimer
BY InvAlways, InvImplies, PTL
=============================================================================
