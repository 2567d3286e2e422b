-------------------------- MODULE Heartbeat_proofs --------------------------
(***************************************************************************)
(* Theorems about Heartbeat, for every interval, timeout, delay and        *)
(* lateness.                                                               *)
(***************************************************************************)
EXTENDS Heartbeat, SequenceTheorems, TLAPS

\* What Append and Tail do to the first element of a sequence.
LEMMA Appended ==
    ASSUME NEW S, NEW s \in Seq(S), NEW x \in S
    PROVE  /\ Append(s, x) \in Seq(S)
           /\ Append(s, x) # <<>>
           /\ Append(s, x)[1] = IF s = <<>> THEN x ELSE s[1]
  <1>1. Append(s, x) \in Seq(S)
    OBVIOUS
  <1>2. Append(s, x) # <<>>
    OBVIOUS
  <1>3. CASE s = <<>>
    BY <1>1, <1>2, <1>3
  <1>4. CASE s # <<>>
    <2>1. 1 \in 1 .. Len(s)
      BY <1>4
    <2>2. Append(s, x)[1] = s[1]
      BY <2>1
    <2> QED  BY <1>1, <1>2, <1>4, <2>2
  <1> QED  BY <1>3, <1>4

LEMMA Taken ==
    ASSUME NEW S, NEW s \in Seq(S), s # <<>>
    PROVE  Tail(s) \in Seq(S) /\ s[1] \in S /\ Head(s) = s[1]
  <1>1. Len(s) \in Nat /\ Len(s) > 0
    OBVIOUS
  <1>2. Tail(s) \in Seq(S)
    OBVIOUS
  <1>3. 1 \in 1 .. Len(s)
    BY <1>1
  <1>4. s[1] \in S
    BY <1>3
  <1>5. Head(s) = s[1]
    BY <1>1
  <1> QED  BY <1>2, <1>4, <1>5

-----------------------------------------------------------------------------
(* Types.                                                                  *)

LEMMA Constants ==
    /\ Interval \in Nat /\ Interval > 0 /\ Timeout \in Nat
    /\ Interval <= Timeout /\ Timeout <= 2 * Interval
    /\ \A d \in Delays : d \in Nat
    /\ \A l \in Lates : l \in Nat
  BY HeartbeatAssumption

LEMMA OtherEnd ==
    ASSUME NEW e \in Ends
    PROVE  /\ Other(e) \in Ends /\ Other(e) # e /\ Other(Other(e)) = e
           /\ Ends = {e, Other(e)}
  BY DEF Ends, Other

LEMMA MessageType ==
    ASSUME NEW l \in Nat, NEW x \in {"OPEN", "PING", "PONG", "CLOSE"}
    PROVE  [msg |-> x, left |-> l] \in Message(l)
  BY DEF Message

\* Time shortens what a message still may take, whatever the messages K.
LEMMA Shortened ==
    ASSUME NEW K, NEW l \in Nat, NEW s \in Seq([msg : K, left : 0 .. l]),
           \A i \in DOMAIN s : s[i].left # 0
    PROVE  [i \in DOMAIN s |-> [s[i] EXCEPT !.left = @ - 1]]
             \in Seq([msg : K, left : 0 .. l])
  <1> DEFINE M == [msg : K, left : 0 .. l]
             t == [i \in DOMAIN s |-> [s[i] EXCEPT !.left = @ - 1]]
  <1>1. Len(s) \in Nat /\ DOMAIN s = 1 .. Len(s)
    BY LenProperties
  <1>2. ASSUME NEW i \in 1 .. Len(s) PROVE t[i] \in M
    <2>1. s[i] \in M
      BY ElementOfSeq
    <2>2. s[i].left # 0
      BY <1>1
    <2>3. t[i] = [s[i] EXCEPT !.left = @ - 1]
      BY <1>1
    <2> HIDE DEF t
    <2> QED  BY <2>1, <2>2, <2>3
  <1>3. t \in [1 .. Len(s) -> M]
    <2>1. DOMAIN t = 1 .. Len(s) /\ t = [i \in 1 .. Len(s) |-> t[i]]
      BY <1>1
    <2> HIDE DEF t, M
    <2> QED  BY <1>2, <2>1
  <1> HIDE DEF t, M
  <1>4. t \in Seq(M)
    BY <1>1, <1>3, SeqDef
  <1> QED  BY <1>4 DEF t, M

LEMMA SentType ==
    ASSUME NEW x \in {"OPEN", "PING", "PONG", "CLOSE"}, NEW e \in Ends, delay \in Nat,
           NEW w \in Seq(Message(delay))
    PROVE  Sent(e, w, x) \in Seq(Message(delay))
  BY MessageType, Appended DEF Sent

LEMMA TypeStep ==
    ASSUME BeatTypeOK, [BeatNext]_beatVars
    PROVE  BeatTypeOK'
  <1> DEFINE M == Message(delay)
             States == {"start", "up", "mute", "left"}
  <1>0. /\ kind \in {"osh", "daemon"} /\ delay \in Delays /\ late \in Lates
        /\ delay \in Nat /\ late \in Nat /\ Interval \in Nat
        /\ state \in [Ends -> States]
        /\ wire \in [Ends -> Seq(M)] /\ age \in [Ends -> Nat] /\ due \in [Ends -> Int]
        /\ cut \in BOOLEAN /\ quiet \in Nat
    BY Constants DEF BeatTypeOK
  <1> SUFFICES /\ kind' \in {"osh", "daemon"} /\ delay' \in Delays /\ late' \in Lates
               /\ delay' = delay
               /\ state' \in [Ends -> States]
               /\ wire' \in [Ends -> Seq(M)] /\ age' \in [Ends -> Nat] /\ due' \in [Ends -> Int]
               /\ cut' \in BOOLEAN /\ quiet' \in Nat
    BY DEF BeatTypeOK
  <1>2. ASSUME NEW e \in Ends, NEW x \in {"OPEN", "PING", "PONG", "CLOSE"}
        PROVE  Sent(e, wire[e], x) \in Seq(M)
    BY <1>0, SentType
  <1>3. ASSUME NEW e \in Ends, wire[e] # <<>> PROVE Tail(wire[e]) \in Seq(M)
    BY <1>0, <1>3, Taken
  <1>4. <<>> \in Seq(M)
    OBVIOUS
  <1> HIDE DEF M
  <1>a. ASSUME NEW e \in Ends, Leave(e)
        PROVE  state' \in [Ends -> States] /\ wire' \in [Ends -> Seq(M)]
    <2>1. \A w \in Ends : (IF w = e THEN <<>> ELSE Sent(w, wire[w], "CLOSE")) \in Seq(M)
      BY <1>2, <1>4
    <2> QED  BY <1>0, <1>a, <2>1 DEF Leave
  <1>b. ASSUME NEW e \in Ends, Rearm(e)
        PROVE  due' \in [Ends -> Int]
    BY <1>0, <1>b DEF Rearm
  <1>5. ASSUME NEW e \in Ends, TickPing(e)
        PROVE  wire' \in [Ends -> Seq(M)] /\ due' \in [Ends -> Int]
               /\ UNCHANGED <<given, state, age, cut, quiet>>
    <2>1. Other(e) \in Ends /\ Sent(Other(e), wire[Other(e)], "PING") \in Seq(M)
      BY <1>2, OtherEnd
    <2> QED  BY <1>0, <1>b, <1>5, <2>1 DEF TickPing, Tick
  <1>6. ASSUME NEW e \in Ends, DeliverPing(e)
        PROVE  wire' \in [Ends -> Seq(M)] /\ age' \in [Ends -> Nat]
               /\ UNCHANGED <<given, state, due, cut, quiet>>
    <2>1. \A w \in Ends : (IF w = e THEN Tail(wire[w]) ELSE Sent(w, wire[w], "PONG")) \in Seq(M)
      BY <1>2, <1>3, <1>6 DEF DeliverPing, Arrives
    <2> QED  BY <1>0, <1>6, <2>1 DEF DeliverPing
  <1>7. ASSUME Elapse
        PROVE  /\ wire' \in [Ends -> Seq(M)] /\ age' \in [Ends -> Nat]
               /\ due' \in [Ends -> Int] /\ quiet' \in Nat
               /\ UNCHANGED <<given, state, cut>>
    <2>1. ASSUME NEW e \in Ends
          PROVE  [i \in DOMAIN wire[e] |-> [wire[e][i] EXCEPT !.left = @ - 1]] \in Seq(M)
      BY <1>0, <1>7, Shortened DEF Elapse, Urgent, M, Message
    <2>2. wire' \in [Ends -> Seq(M)]
      BY <1>7, <2>1 DEF Elapse
    <2> QED  BY <1>0, <1>7, <2>2 DEF Elapse
  <1>8. ASSUME NEW e \in Ends, TickLeave(e)
        PROVE  wire' \in [Ends -> Seq(M)] /\ state' \in [Ends -> States]
               /\ due' \in [Ends -> Int] /\ UNCHANGED <<given, age, cut, quiet>>
    BY <1>a, <1>b, <1>8 DEF TickLeave, Tick
  <1>9. ASSUME NEW e \in Ends, TickMute(e)
        PROVE  state' \in [Ends -> States] /\ due' \in [Ends -> Int]
               /\ UNCHANGED <<given, age, wire, cut, quiet>>
    BY <1>0, <1>b, <1>9 DEF TickMute, Tick
  <1>10. ASSUME NEW e \in Ends, ReadTimeout(e)
         PROVE  wire' \in [Ends -> Seq(M)] /\ state' \in [Ends -> States]
                /\ UNCHANGED <<given, age, due, cut, quiet>>
    BY <1>a, <1>10 DEF ReadTimeout
  <1>11. ASSUME NEW e \in Ends, DeliverOpen(e) \/ DeliverPong(e) \/ DeliverClose(e)
         PROVE  /\ wire' \in [Ends -> Seq(M)] /\ state' \in [Ends -> States]
                /\ age' \in [Ends -> Nat] /\ UNCHANGED <<given, due, cut, quiet>>
    <2>1. CASE DeliverOpen(e)
      BY <1>0, <1>3, <2>1 DEF DeliverOpen, Arrives
    <2>2. CASE DeliverPong(e)
      BY <1>0, <1>3, <2>2 DEF DeliverPong, Arrives
    <2>3. CASE DeliverClose(e)
      BY <1>0, <1>4, <2>3 DEF DeliverClose
    <2> QED  BY <1>11, <2>1, <2>2, <2>3
  <1>12. ASSUME Cut
         PROVE  /\ wire' \in [Ends -> Seq(M)] /\ state' \in [Ends -> States]
                /\ cut' \in BOOLEAN /\ UNCHANGED <<given, age, due, quiet>>
    BY <1>0, <1>4, <1>12 DEF Cut
  <1>13. CASE UNCHANGED beatVars
    BY <1>0, <1>13 DEF beatVars
  <1>14. CASE Cut \/ Elapse
    BY <1>0, <1>7, <1>12, <1>14 DEF given
  <1>15. CASE \E e \in Ends : EndStep(e)
    <2>1. PICK e \in Ends : EndStep(e)
      BY <1>15
    <2>2. CASE TickPing(e)
      BY <1>0, <1>5, <2>2 DEF given
    <2>3. CASE TickLeave(e)
      BY <1>0, <1>8, <2>3 DEF given
    <2>4. CASE TickMute(e)
      BY <1>0, <1>9, <2>4 DEF given
    <2>5. CASE ReadTimeout(e)
      BY <1>0, <1>10, <2>5 DEF given
    <2>6. CASE DeliverPing(e)
      BY <1>0, <1>6, <2>6 DEF given
    <2>7. CASE DeliverOpen(e) \/ DeliverPong(e) \/ DeliverClose(e)
      BY <1>0, <1>11, <2>7 DEF given
    <2> QED  BY <2>1, <2>2, <2>3, <2>4, <2>5, <2>6, <2>7 DEF EndStep
  <1> QED  BY <1>13, <1>14, <1>15 DEF BeatNext

LEMMA InitType == BeatInit => BeatTypeOK
  <1> SUFFICES ASSUME BeatInit PROVE BeatTypeOK
    OBVIOUS
  <1>1. delay \in Nat
    BY Constants DEF BeatInit
  <1>2. [msg |-> "OPEN", left |-> delay] \in Message(delay)
    BY <1>1, MessageType
  <1>3. wire \in [Ends -> Seq(Message(delay))]
    BY <1>2 DEF BeatInit
  <1>4. /\ state \in [Ends -> {"start", "up", "mute", "left"}]
        /\ age \in [Ends -> Nat] /\ due \in [Ends -> Int]
    BY DEF BeatInit
  <1> QED  BY <1>3, <1>4 DEF BeatInit, BeatTypeOK

\* Every variable keeps its type.
THEOREM TypeCorrect == BeatSpec => []BeatTypeOK
  BY InitType, TypeStep, PTL DEF BeatSpec

-----------------------------------------------------------------------------
(* A silent connection is noticed.                                         *)

\* What a cut leaves, and what it means for the ages.
Silence ==
    /\ cut => \A e \in Ends : wire[e] = <<>> /\ state[e] # "start"
    /\ ~cut => quiet = 0
    /\ \A e \in Ends : Reads(e) => quiet <= age[e]

\* The timers.
Paced ==
    /\ state["relay"] # "start" /\ state["relay"] # "mute"
    /\ state["peer"] = "mute" => kind = "daemon"
    /\ \A e \in Ends : state[e] = "start" => due[e] = 0 /\ age[e] = 0
    /\ \A e \in Ends : Beats(e) =>
         -late <= due[e] /\ due[e] <= Interval /\ age[e] + due[e] <= Timeout + Interval
    /\ kind = "daemon" /\ Reads("peer") => age["peer"] <= Timeout + late + 1

NoticeInv == BeatTypeOK /\ Silence /\ Paced

LEMMA InitNotice == BeatInit => Silence /\ Paced
  <1> SUFFICES ASSUME BeatInit, BeatTypeOK PROVE Silence /\ Paced
    BY InitType
  <1>1. \A e \in Ends : age[e] = 0 /\ due[e] = 0 /\ quiet = 0 /\ ~cut /\ state[e] # "mute"
    BY DEF BeatInit
  <1>2. state["relay"] = "up" /\ late \in Nat
    BY Constants DEF BeatInit, Ends
  <1>3. "peer" \in Ends /\ "relay" \in Ends
    BY DEF Ends
  <1> QED  BY <1>1, <1>2, <1>3, Constants DEF Silence, Paced, Reads, Beats

LEMMA SilenceStep ==
    ASSUME NoticeInv, [BeatNext]_beatVars
    PROVE  Silence'
  <1> USE DEF Silence, Reads
  <1>0. /\ state \in [Ends -> {"start", "up", "mute", "left"}]
        /\ age \in [Ends -> Nat] /\ quiet \in Nat /\ cut \in BOOLEAN
        /\ DOMAIN wire = Ends /\ Silence /\ BeatTypeOK'
    BY TypeStep DEF NoticeInv, BeatTypeOK
  <1>1. CASE UNCHANGED beatVars
    BY <1>0, <1>1 DEF beatVars
  <1>2. ASSUME NEW e \in Ends, cut PROVE \A m : Sent(e, wire[e], m) = <<>>
    BY <1>0, <1>2 DEF Sent
  <1>3. ASSUME NEW e \in Ends, Leave(e), UNCHANGED <<age, cut, quiet>> PROVE Silence'
    BY <1>0, <1>2, <1>3 DEF Leave
  <1>4. CASE \E e \in Ends : EndStep(e)
    <2>1. PICK e \in Ends : EndStep(e)
      BY <1>4
    <2>2. CASE TickPing(e)
      BY <1>0, <1>2, <2>2, OtherEnd DEF TickPing
    <2>3. CASE TickLeave(e) \/ ReadTimeout(e)
      BY <1>3, <2>3 DEF TickLeave, ReadTimeout
    <2>4. CASE TickMute(e)
      BY <1>0, <2>4 DEF TickMute, Tick, Beats
    <2>5. CASE DeliverOpen(e) \/ DeliverPing(e) \/ DeliverPong(e) \/ DeliverClose(e)
      <3>1. ~cut /\ ~cut' /\ quiet' = quiet /\ quiet = 0
        BY <1>0, <2>5 DEF DeliverOpen, DeliverPing, DeliverPong, DeliverClose, Arrives
      <3>2. \A f \in Ends : age'[f] \in Nat
        BY <1>0 DEF BeatTypeOK
      <3> QED  BY <3>1, <3>2
    <2> QED  BY <2>1, <2>2, <2>3, <2>4, <2>5 DEF EndStep
  <1>5. CASE Cut
    BY <1>0, <1>5 DEF Cut
  <1>6. CASE Elapse
    <2>1. cut => \A e \in Ends : wire'[e] = <<>>
      BY <1>0, <1>6 DEF Elapse
    <2> QED  BY <1>0, <1>6, <2>1 DEF Elapse
  <1> QED  BY <1>1, <1>4, <1>5, <1>6 DEF BeatNext

LEMMA PacedStep ==
    ASSUME NoticeInv, [BeatNext]_beatVars
    PROVE  Paced'
  <1> USE DEF Paced, Reads, Beats, given
  <1>0. /\ state \in [Ends -> {"start", "up", "mute", "left"}]
        /\ age \in [Ends -> Nat] /\ due \in [Ends -> Int] /\ late \in Nat
        /\ kind \in {"osh", "daemon"} /\ Interval \in Nat /\ Interval > 0 /\ Timeout \in Nat
        /\ Paced
    BY Constants DEF NoticeInv, BeatTypeOK
  <1>1. "peer" \in Ends /\ "relay" \in Ends /\ \A e \in Ends : e = "relay" \/ e = "peer"
    BY DEF Ends
  <1>2. CASE UNCHANGED beatVars
    BY <1>0, <1>2 DEF beatVars
  <1>3. CASE \E e \in Ends : EndStep(e)
    <2>1. PICK e \in Ends : EndStep(e)
      BY <1>3
    <2>2. CASE TickPing(e)
      BY <1>0, <1>1, <2>2 DEF TickPing, Tick, Rearm, Expired
    <2>3. CASE TickLeave(e)
      BY <1>0, <1>1, <2>3 DEF TickLeave, Tick, Rearm, Leave
    <2>4. CASE TickMute(e)
      BY <1>0, <1>1, <2>4 DEF TickMute, Tick, Rearm
    <2>5. CASE ReadTimeout(e)
      BY <1>0, <1>1, <2>5 DEF ReadTimeout, Leave
    <2>6. CASE DeliverOpen(e)
      BY <1>0, <1>1, <2>6 DEF DeliverOpen
    <2>7. CASE DeliverPing(e) \/ DeliverPong(e)
      <3>1. age' = [age EXCEPT ![e] = 0] /\ UNCHANGED <<state, due, kind, late>>
        BY <2>7 DEF DeliverPing, DeliverPong
      <3> QED  BY <1>0, <1>1, <3>1
    <2>8. CASE DeliverClose(e)
      BY <1>0, <1>1, <2>8 DEF DeliverClose
    <2> QED  BY <2>1, <2>2, <2>3, <2>4, <2>5, <2>6, <2>7, <2>8 DEF EndStep
  <1>4. CASE Cut
    BY <1>0, <1>1, <1>4 DEF Cut
  <1>5. CASE Elapse
    BY <1>0, <1>1, <1>5 DEF Elapse, Urgent
  <1> QED  BY <1>2, <1>3, <1>4, <1>5 DEF BeatNext

LEMMA NoticeHolds == BeatSpec => []NoticeInv
  <1>1. BeatInit => NoticeInv
    BY InitType, InitNotice DEF NoticeInv
  <1>2. NoticeInv /\ [BeatNext]_beatVars => NoticeInv'
    BY TypeStep, SilenceStep, PacedStep DEF NoticeInv
  <1> QED  BY <1>1, <1>2, PTL DEF BeatSpec

\* Both ends give up a connection that is cut within the timeout, another
\* interval and the lateness of a tick, for every value of these.
THEOREM SilenceNoticed == BeatSpec => []NoticedInTime
  <1>1. NoticeInv => NoticedInTime
    <2> SUFFICES ASSUME NoticeInv, NEW e \in Ends, Reads(e)
                 PROVE  quiet <= Timeout + Interval + late
      BY DEF NoticedInTime
    <2>1. /\ age[e] \in Nat /\ due[e] \in Int /\ quiet \in Nat /\ late \in Nat
          /\ Timeout \in Nat /\ Interval \in Nat /\ Interval > 0
      BY Constants DEF NoticeInv, BeatTypeOK
    <2>2. quiet <= age[e]
      BY DEF NoticeInv, Silence
    <2>3. CASE Beats(e)
      BY <2>1, <2>2, <2>3 DEF NoticeInv, Paced
    <2>4. CASE state[e] = "mute"
      BY <2>1, <2>2, <2>4 DEF NoticeInv, Paced, Ends
    <2> QED  BY <2>3, <2>4 DEF Reads, Beats
  <1> QED  BY <1>1, NoticeHolds, PTL

-----------------------------------------------------------------------------
(* A connection that works is kept.                                        *)

\* The network and the timers are fast enough, and nothing was cut.
Fast == ~cut /\ Interval + delay + late <= Timeout

\* The time within which e hears something.
Wait(e) ==
    IF wire[e] # <<>> THEN wire[e][1].left
    ELSE late + delay + IF state[Other(e)] = "start"
                          THEN wire[Other(e)][1].left ELSE due[Other(e)]

\* Nobody has closed the connection.
Unclosed(l) == [msg : {"OPEN", "PING", "PONG"}, left : 0 .. l]

Kept ==
    /\ state["relay"] = "up" /\ state["peer"] \in {"start", "up"}
    /\ \A e \in Ends : wire[e] \in Seq(Unclosed(delay))
    /\ state["peer"] = "start" => wire["peer"] # <<>> /\ wire["relay"] = <<>>
    /\ \A e \in Ends : state[e] = "up" => age[e] + Wait(e) <= Timeout

KeptInv == NoticeInv /\ (Fast => Kept)

\* The type of what the wait depends on.
LEMMA WaitType ==
    ASSUME NoticeInv, NEW e \in Ends, wire[e] # <<>>
    PROVE  /\ Tail(wire[e]) \in Seq(Message(delay)) /\ Head(wire[e]) = wire[e][1]
           /\ wire[e][1] \in Message(delay)
           /\ wire[e][1].left \in Nat /\ wire[e][1].left <= delay
           /\ 1 \in DOMAIN wire[e]
  <1>1. wire[e] \in Seq(Message(delay)) /\ delay \in Nat
    BY Constants DEF NoticeInv, BeatTypeOK
  <1>2. wire[e][1] \in Message(delay)
    BY <1>1, Taken
  <1>3. 1 \in DOMAIN wire[e]
    BY <1>1
  <1> QED  BY <1>1, <1>2, <1>3, Taken DEF Message

\* Nobody has waited too long.
LEMMA NotExpired ==
    ASSUME NoticeInv, Kept, NEW e \in Ends, state[e] = "up"
    PROVE  ~Expired(e)
  <1> DEFINE o == Other(e)
  <1>1. o \in Ends /\ state[o] \in {"start", "up"}
    BY OtherEnd DEF Kept, Ends
  <1>2. /\ age[e] \in Nat /\ due[o] \in Int /\ late \in Nat /\ delay \in Nat /\ Timeout \in Nat
        /\ age[e] + Wait(e) <= Timeout
    BY <1>1, Constants DEF NoticeInv, BeatTypeOK, Kept
  <1>3. CASE wire[e] # <<>>
    BY <1>2, <1>3, WaitType DEF Wait, Expired
  <1>4. CASE wire[e] = <<>> /\ state[o] = "start"
    <2>1. o = "peer" /\ wire[o] # <<>>
      BY <1>4 DEF Kept, Ends, Other
    <2> QED  BY <1>1, <1>2, <1>4, <2>1, WaitType DEF Wait, Expired
  <1>5. CASE wire[e] = <<>> /\ state[o] = "up"
    <2>1. -late <= due[o]
      BY <1>1, <1>5 DEF NoticeInv, Paced, Beats
    <2> QED  BY <1>2, <1>5, <2>1 DEF Wait, Expired
  <1> QED  BY <1>1, <1>3, <1>4, <1>5

LEMMA InitKept == BeatInit /\ Fast => Kept
  <1> SUFFICES ASSUME BeatInit, Fast PROVE Kept
    OBVIOUS
  <1>1. /\ delay \in Nat /\ late \in Nat /\ Interval \in Nat /\ Timeout \in Nat
        /\ Timeout <= 2 * Interval /\ Interval + delay + late <= Timeout
    BY Constants DEF BeatInit, Fast
  <1>2. /\ wire["relay"] = <<>> /\ wire["peer"] = <<[msg |-> "OPEN", left |-> delay]>>
        /\ state["relay"] = "up" /\ state["peer"] = "start"
        /\ age["relay"] = 0
    BY DEF BeatInit, Ends
  <1>3. wire["peer"] # <<>> /\ wire["peer"][1].left = delay
    BY <1>2
  <1>4. \A e \in Ends : wire[e] \in Seq(Unclosed(delay))
    <2> DEFINE m == [msg |-> "OPEN", left |-> delay]
    <2>1. m \in Unclosed(delay)
      BY <1>1 DEF Unclosed
    <2> HIDE DEF m
    <2>2. <<>> \in Seq(Unclosed(delay)) /\ <<m>> \in Seq(Unclosed(delay))
      BY <2>1
    <2>3. \A e \in Ends : wire[e] = <<>> \/ wire[e] = <<m>>
      BY <1>2 DEF Ends, m
    <2> QED  BY <2>2, <2>3
  <1>5. Wait("relay") = late + delay + delay
    BY <1>2, <1>3 DEF Wait, Other
  <1>6. \A e \in Ends : state[e] = "up" => age[e] + Wait(e) <= Timeout
    BY <1>1, <1>2, <1>5 DEF Ends
  <1> QED  BY <1>2, <1>3, <1>4, <1>6 DEF Kept

\* What is sent to an end that is up.
LEMMA SentKept ==
    ASSUME NoticeInv, Kept, ~cut, NEW e \in Ends, NEW x \in {"PING", "PONG"},
           NEW w, w = wire[e]
    PROVE  /\ Sent(e, w, x) \in Seq(Unclosed(delay))
           /\ Sent(e, w, x) # <<>>
           /\ Sent(e, w, x)[1].left = IF w = <<>> THEN delay ELSE w[1].left
  <1>1. delay \in Nat /\ w \in Seq(Unclosed(delay)) /\ state[e] # "left"
    BY Constants DEF NoticeInv, BeatTypeOK, Kept, Ends
  <1>2. [msg |-> x, left |-> delay] \in Unclosed(delay)
    BY <1>1 DEF Unclosed
  <1>3. Sent(e, w, x) = Append(w, [msg |-> x, left |-> delay])
    BY <1>1 DEF Sent
  <1> QED  BY <1>1, <1>2, <1>3, Appended

\* The steps that do not change the state of an end.
LEMMA QuietStep ==
    ASSUME NoticeInv, Fast, Kept, NEW e \in Ends,
           TickPing(e) \/ DeliverPing(e) \/ DeliverPong(e)
    PROVE  Kept'
  <1> DEFINE o == Other(e)
  <1> USE DEF given
  <1>0. /\ o \in Ends /\ o # e /\ Ends = {e, o} /\ Other(o) = e
        /\ state[e] = "up" /\ state' = state /\ delay' = delay /\ late' = late
    BY OtherEnd DEF TickPing, Tick, Beats, DeliverPing, DeliverPong, Reads, Kept, Ends
  <1>1. /\ age \in [Ends -> Nat] /\ due \in [Ends -> Int]
        /\ late \in Nat /\ delay \in Nat /\ Timeout \in Nat /\ Interval \in Nat
        /\ DOMAIN wire = Ends /\ ~cut /\ Interval + delay + late <= Timeout
    BY Constants DEF NoticeInv, BeatTypeOK, Fast
  <1>2. /\ -late <= due[e] /\ due[e] <= Interval
        /\ state[o] = "up" => -late <= due[o] /\ due[o] <= Interval
    BY <1>0 DEF NoticeInv, Paced, Beats
  <1>3. /\ state[o] \in {"start", "up"}
        /\ state[o] = "start" => wire[o] # <<>> /\ wire[e] = <<>>
    BY <1>0 DEF Kept, Ends
  <1>4. age[e] + Wait(e) <= Timeout /\ (state[o] = "up" => age[o] + Wait(o) <= Timeout)
    BY <1>0 DEF Kept
  <1>5. \A f \in Ends : wire[f] # <<>> => wire[f][1].left \in Nat /\ wire[f][1].left <= delay
    BY WaitType
  <1>6. CASE TickPing(e)
    <2>1. /\ wire' = [wire EXCEPT ![o] = Sent(o, wire[o], "PING")]
          /\ age' = age /\ due' = [due EXCEPT ![e] = @ + Interval]
      BY <1>6 DEF TickPing, Tick, Rearm
    <2>2. /\ Sent(o, wire[o], "PING") \in Seq(Unclosed(delay))
          /\ Sent(o, wire[o], "PING") # <<>>
          /\ Sent(o, wire[o], "PING")[1].left = IF wire[o] = <<>> THEN delay ELSE wire[o][1].left
      BY <1>0, <1>1, SentKept
    <2>3. /\ wire'[e] = wire[e] /\ wire'[o] = Sent(o, wire[o], "PING")
          /\ due'[o] = due[o]
      BY <1>0, <1>1, <2>1
    <2>4. wire'[o] # <<>> /\ wire'[o][1].left = IF wire[o] = <<>> THEN delay ELSE wire[o][1].left
      BY <2>2, <2>3
    <2>5. Wait(e)' = Wait(e)
      BY <1>0, <1>3, <2>3, <2>4 DEF Wait
    <2>6. state[o] = "up" => age[o] + Wait(o)' <= Timeout
      <3>1. Wait(o)' = IF wire[o] = <<>> THEN delay ELSE wire[o][1].left
        BY <2>4 DEF Wait
      <3>2. wire[o] = <<>> => Wait(o) = late + delay + due[e]
        BY <1>0 DEF Wait
      <3>3. wire[o] # <<>> => Wait(o) = wire[o][1].left
        BY DEF Wait
      <3> QED  BY <1>0, <1>1, <1>2, <1>4, <1>5, <3>1, <3>2, <3>3
    <2>7. \A f \in Ends : wire'[f] \in Seq(Unclosed(delay))
      BY <1>0, <2>2, <2>3 DEF Kept
    <2>8. state["peer"] = "start" => wire'["peer"] # <<>> /\ wire'["relay"] = <<>>
      BY <1>0, <2>3, <2>4 DEF Kept, Ends
    <2>9. \A f \in Ends : state[f] = "up" => age[f] + Wait(f)' <= Timeout
      BY <1>0, <1>4, <2>5, <2>6
    <2> QED  BY <1>0, <2>1, <2>7, <2>8, <2>9 DEF Kept
  <1>7. CASE DeliverPing(e) \/ DeliverPong(e)
    <2>1. /\ wire'[e] = Tail(wire[e]) /\ wire[e] # <<>>
          /\ wire'[o] = wire[o] \/ wire'[o] = Sent(o, wire[o], "PONG")
          /\ age' = [age EXCEPT ![e] = 0] /\ due' = due
      BY <1>0, <1>1, <1>7 DEF DeliverPing, DeliverPong, Arrives
    <2>2. /\ Sent(o, wire[o], "PONG") \in Seq(Unclosed(delay))
          /\ Sent(o, wire[o], "PONG") # <<>>
          /\ Sent(o, wire[o], "PONG")[1].left = IF wire[o] = <<>> THEN delay ELSE wire[o][1].left
      BY <1>0, <1>1, SentKept
    <2>3. state[o] = "up"
      BY <1>3, <2>1
    <2>4. wire'[e] \in Seq(Unclosed(delay)) /\ wire'[o] \in Seq(Unclosed(delay))
      BY <1>0, <2>1, <2>2, Taken DEF Kept
    <2>5. wire'[e] # <<>> => wire'[e][1].left \in Nat /\ wire'[e][1].left <= delay
      <3>1. ASSUME wire'[e] # <<>> PROVE wire'[e][1] \in Unclosed(delay)
        BY <2>4, <3>1, Taken
      <3> QED  BY <1>1, <3>1 DEF Unclosed
    <2>6. age'[e] + Wait(e)' <= Timeout
      <3>1. Wait(e)' = IF wire'[e] # <<>> THEN wire'[e][1].left ELSE late + delay + due[o]
        BY <1>0, <2>1, <2>3 DEF Wait
      <3>2. age'[e] = 0
        BY <1>1, <2>1
      <3>3. due[o] \in Int /\ due[o] <= Interval
        BY <1>0, <1>1, <1>2, <2>3
      <3>4. CASE wire'[e] # <<>>
        BY <1>1, <2>5, <3>1, <3>2, <3>4
      <3>5. CASE wire'[e] = <<>>
        BY <1>1, <3>1, <3>2, <3>3, <3>5
      <3> QED  BY <3>4, <3>5
    <2>7. age'[o] + Wait(o)' <= Timeout
      <3>1. wire'[o] = wire[o] => Wait(o)' = Wait(o)
        BY <1>0, <2>1 DEF Wait
      <3>2. wire'[o] # wire[o] => Wait(o)' = IF wire[o] = <<>> THEN delay ELSE wire[o][1].left
        BY <2>1, <2>2 DEF Wait
      <3>3. wire[o] = <<>> => Wait(o) = late + delay + due[e]
        BY <1>0 DEF Wait
      <3>4. wire[o] # <<>> => Wait(o) = wire[o][1].left
        BY DEF Wait
      <3>5. age'[o] = age[o]
        BY <1>0, <1>1, <2>1
      <3> QED  BY <1>0, <1>1, <1>2, <1>4, <1>5, <2>3, <3>1, <3>2, <3>3, <3>4, <3>5
    <2>8. \A f \in Ends : wire'[f] \in Seq(Unclosed(delay))
      BY <1>0, <2>4
    <2>9. \A f \in Ends : age'[f] + Wait(f)' <= Timeout
      BY <1>0, <2>6, <2>7
    <2>10. state["peer"] # "start"
      BY <1>0, <2>3 DEF Ends
    <2> QED  BY <1>0, <2>8, <2>9, <2>10 DEF Kept
  <1> QED  BY <1>6, <1>7

\* The peer starts.
LEMMA OpenStep ==
    ASSUME NoticeInv, Fast, Kept, NEW e \in Ends, DeliverOpen(e)
    PROVE  Kept'
  <1> USE DEF given
  <1>0. /\ e = "peer" /\ Other("peer") = "relay" /\ Other("relay") = "peer"
        /\ "peer" \in Ends /\ "relay" \in Ends
        /\ state["relay"] = "up" /\ state["peer"] = "start"
        /\ wire["relay"] = <<>> /\ wire["peer"] # <<>>
    BY DEF DeliverOpen, Kept, Ends, Other
  <1>1. /\ late \in Nat /\ delay \in Nat /\ Timeout \in Nat /\ Interval \in Nat
        /\ DOMAIN wire = Ends /\ DOMAIN state = Ends /\ due["relay"] \in Int
        /\ age["relay"] \in Nat /\ Interval + delay + late <= Timeout
    BY <1>0, Constants DEF NoticeInv, BeatTypeOK, Fast
  <1>2. /\ due["relay"] <= Interval /\ due["peer"] = 0 /\ age["peer"] = 0
    BY <1>0 DEF NoticeInv, Paced, Beats
  <1>3. age["relay"] + late + delay + wire["peer"][1].left <= Timeout /\ wire["peer"][1].left \in Nat
    <2>1. Wait("relay") = late + delay + wire["peer"][1].left
      BY <1>0 DEF Wait
    <2>2. age["relay"] + Wait("relay") <= Timeout
      BY <1>0 DEF Kept
    <2>3. wire["peer"][1].left \in Nat
      BY <1>0, WaitType
    <2> QED  BY <1>1, <2>1, <2>2, <2>3
  <1>4. /\ state'["relay"] = "up" /\ state'["peer"] = "up" /\ age' = age /\ due' = due
        /\ delay' = delay /\ late' = late
        /\ wire'["relay"] = <<>> /\ wire'["peer"] = Tail(wire["peer"])
    BY <1>0, <1>1 DEF DeliverOpen
  <1>5. wire'["peer"] \in Seq(Unclosed(delay))
    BY <1>0, <1>4, Taken DEF Kept
  <1>6. wire'["peer"] # <<>> => wire'["peer"][1].left \in Nat /\ wire'["peer"][1].left <= delay
    <2>1. ASSUME wire'["peer"] # <<>> PROVE wire'["peer"][1] \in Unclosed(delay)
      BY <1>5, <2>1, Taken
    <2> QED  BY <1>1, <2>1 DEF Unclosed
  <1>7. age["peer"] + Wait("peer")' <= Timeout
    <2>1. Wait("peer")' = IF wire'["peer"] # <<>> THEN wire'["peer"][1].left
                          ELSE late + delay + due["relay"]
      BY <1>0, <1>4 DEF Wait
    <2> QED  BY <1>1, <1>2, <1>6, <2>1
  <1>8. age["relay"] + Wait("relay")' <= Timeout
    <2>1. Wait("relay")' = late + delay + due["peer"]
      BY <1>0, <1>4 DEF Wait
    <2> QED  BY <1>1, <1>2, <1>3, <2>1
  <1>9. \A f \in Ends : wire'[f] \in Seq(Unclosed(delay)) /\ age'[f] + Wait(f)' <= Timeout
    <2>1. <<>> \in Seq(Unclosed(delay))
      OBVIOUS
    <2>2. \A f \in Ends : f = "relay" \/ f = "peer"
      BY DEF Ends
    <2> QED  BY <1>4, <1>5, <1>7, <1>8, <2>1, <2>2
  <1> QED  BY <1>4, <1>9 DEF Kept

\* Time passes.
LEMMA ElapseStep ==
    ASSUME NoticeInv, Fast, Kept, Elapse
    PROVE  Kept'
  <1> USE DEF given
  <1>1. /\ late \in Nat /\ delay \in Nat /\ Timeout \in Nat
        /\ age \in [Ends -> Nat] /\ due \in [Ends -> Int] /\ DOMAIN wire = Ends
        /\ state' = state /\ delay' = delay /\ late' = late
    BY Constants DEF NoticeInv, BeatTypeOK, Elapse
  <1>2. ASSUME NEW e \in Ends
        PROVE  /\ wire'[e] \in Seq(Unclosed(delay))
               /\ wire'[e] = <<>> <=> wire[e] = <<>>
               /\ wire[e] # <<>> => wire'[e][1].left = wire[e][1].left - 1
    <2>1. wire[e] \in Seq(Unclosed(delay)) /\ \A i \in DOMAIN wire[e] : wire[e][i].left # 0
      BY DEF Kept, Elapse, Urgent
    <2>2. wire'[e] = [i \in DOMAIN wire[e] |-> [wire[e][i] EXCEPT !.left = @ - 1]]
      BY DEF Elapse
    <2>3. wire'[e] \in Seq(Unclosed(delay))
      <3> DEFINE K == {"OPEN", "PING", "PONG"}
      <3>1. wire[e] \in Seq([msg : K, left : 0 .. delay])
        BY <2>1 DEF Unclosed
      <3> HIDE DEF K
      <3>2. [i \in DOMAIN wire[e] |-> [wire[e][i] EXCEPT !.left = @ - 1]]
              \in Seq([msg : K, left : 0 .. delay])
        BY <1>1, <2>1, <3>1, Shortened
      <3>3. wire'[e] \in Seq([msg : K, left : 0 .. delay])
        BY <2>2, <3>2
      <3> QED  BY <3>3 DEF K, Unclosed
    <2>4. DOMAIN wire'[e] = DOMAIN wire[e]
      BY <2>2
    <2>5. wire'[e] = <<>> <=> wire[e] = <<>>
      <3>1. /\ DOMAIN wire[e] = 1 .. Len(wire[e]) /\ Len(wire[e]) \in Nat
            /\ DOMAIN wire'[e] = 1 .. Len(wire'[e]) /\ Len(wire'[e]) \in Nat
        BY <2>1, <2>3, LenProperties
      <3>2. Len(wire[e]) = Len(wire'[e])
        BY <2>4, <3>1
      <3> QED  BY <2>1, <2>3, <3>2, EmptySeq
    <2>6. ASSUME wire[e] # <<>> PROVE wire'[e][1].left = wire[e][1].left - 1
      <3>1. 1 \in DOMAIN wire[e] /\ wire[e][1] \in Message(delay)
        BY <2>6, WaitType
      <3>2. wire'[e][1] = [wire[e][1] EXCEPT !.left = @ - 1]
        BY <2>2, <3>1
      <3> QED  BY <3>1, <3>2 DEF Message
    <2> QED  BY <2>3, <2>5, <2>6
  <1>3. ASSUME NEW e \in Ends, state[e] = "up" PROVE age'[e] + Wait(e)' <= Timeout
    <2> DEFINE o == Other(e)
    <2>1. o \in Ends /\ state[o] \in {"start", "up"} /\ (state[o] = "start" => wire[o] # <<>>)
      BY OtherEnd DEF Kept, Ends
    <2>2. age'[e] = age[e] + 1 /\ (state[o] = "up" => due'[o] = due[o] - 1)
      BY <1>1, <1>3, <2>1 DEF Elapse, Reads, Beats
    <2>3. age[e] + Wait(e) <= Timeout
      BY <1>3 DEF Kept
    <2>4. \A f \in {e, o} : wire[f] # <<>> => wire[f][1].left \in Nat
      BY <2>1, WaitType
    <2>5. Wait(e)' = Wait(e) - 1
      <3>1. CASE wire[e] # <<>>
        BY <1>2, <3>1 DEF Wait
      <3>2. CASE wire[e] = <<>> /\ state[o] = "start"
        <4>1. wire'[o][1].left = wire[o][1].left - 1 /\ wire'[e] = <<>>
          BY <1>2, <2>1, <3>2
        <4>2. Wait(e)' = late + delay + wire'[o][1].left
          BY <1>1, <3>2, <4>1 DEF Wait
        <4>3. Wait(e) = late + delay + wire[o][1].left
          BY <3>2 DEF Wait
        <4> QED  BY <1>1, <2>1, <2>4, <3>2, <4>1, <4>2, <4>3
      <3>3. CASE wire[e] = <<>> /\ state[o] = "up"
        BY <1>1, <1>2, <2>1, <2>2, <3>3 DEF Wait
      <3> QED  BY <2>1, <3>1, <3>2, <3>3
    <2>6. Wait(e) \in Int
      BY <1>1, <2>1, <2>4 DEF Wait
    <2> QED  BY <1>1, <2>2, <2>3, <2>5, <2>6
  <1>4. state["peer"] = "start" => wire'["peer"] # <<>> /\ wire'["relay"] = <<>>
    BY <1>2 DEF Kept, Ends
  <1> QED  BY <1>1, <1>2, <1>3, <1>4 DEF Kept

LEMMA KeptStep ==
    ASSUME KeptInv, [BeatNext]_beatVars
    PROVE  (Fast => Kept)'
  <1>1. SUFFICES ASSUME Fast' PROVE Kept'
    OBVIOUS
  <1>2. Fast /\ Kept /\ NoticeInv
    <2>1. Fast
      BY <1>1 DEF Fast, BeatNext, EndStep, Cut, Elapse, TickPing, TickLeave, TickMute, ReadTimeout,
                  DeliverOpen, DeliverPing, DeliverPong, DeliverClose, given, beatVars
    <2> QED  BY <2>1 DEF KeptInv
  <1>3. CASE UNCHANGED beatVars
    BY <1>2, <1>3 DEF Kept, Wait, beatVars
  <1>4. CASE \E e \in Ends : EndStep(e)
    <2>1. PICK e \in Ends : EndStep(e)
      BY <1>4
    <2>2. CASE TickPing(e) \/ DeliverPing(e) \/ DeliverPong(e)
      BY <1>2, <2>2, QuietStep
    <2>3. CASE DeliverOpen(e)
      BY <1>2, <2>3, OpenStep
    <2>4. CASE TickLeave(e) \/ TickMute(e) \/ ReadTimeout(e)
      <3>1. Expired(e) /\ state[e] = "up"
        BY <1>2, <2>4 DEF TickLeave, TickMute, ReadTimeout, Tick, Beats, Reads, Kept, Ends
      <3> QED  BY <1>2, <3>1, NotExpired
    <2>5. CASE DeliverClose(e)
      <3>1. wire[e] \in Seq(Unclosed(delay)) /\ wire[e] # <<>> /\ Head(wire[e]).msg = "CLOSE"
        BY <1>2, <2>5 DEF DeliverClose, Arrives, Kept
      <3>2. Head(wire[e]) \in Unclosed(delay)
        BY <3>1, Taken
      <3> QED  BY <3>1, <3>2 DEF Unclosed
    <2> QED  BY <2>1, <2>2, <2>3, <2>4, <2>5 DEF EndStep
  <1>5. CASE Cut
    BY <1>1, <1>5 DEF Cut, Fast
  <1>6. CASE Elapse
    BY <1>2, <1>6, ElapseStep
  <1> QED  BY <1>3, <1>4, <1>5, <1>6 DEF BeatNext

\* A connection that works is kept, for every interval, timeout of at most two
\* intervals, delay and lateness.
THEOREM WorkingKept == BeatSpec => []LiveKept
  <1>1. BeatInit => KeptInv
    BY InitType, InitNotice, InitKept DEF KeptInv, NoticeInv
  <1>2. KeptInv /\ [BeatNext]_beatVars => KeptInv'
    BY TypeStep, SilenceStep, PacedStep, KeptStep DEF KeptInv, NoticeInv
  <1>3. KeptInv => LiveKept
    BY DEF KeptInv, LiveKept, Fast, Kept
  <1> QED  BY <1>1, <1>2, <1>3, PTL DEF BeatSpec
==============================================================================
