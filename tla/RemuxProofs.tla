---------------------------- MODULE RemuxProofs ----------------------------
(***************************************************************************)
(* Remux, for every number of packets, every size of the two queues, every *)
(* choice of the muxer's options and every series of failures.             *)
(***************************************************************************)
EXTENDS Remux, SequenceTheorems, TLAPS

-----------------------------------------------------------------------------
(* Sequences of events, of messages and of packets.  Whatever is no packet *)
(* has number 0.                                                           *)

OutEvents ==
  [ev : {"packet"}, pkt : Pkts, scaled : Nat]
    \cup [ev : {"header", "trailer"}, pkt : {0}, scaled : {0}]
Given == {Header, Flush} \cup [type : {"packet"}, pkt : Pkts, scaled : Nat]

Numbers(s) == {s[k].pkt : k \in DOMAIN s} \ {0}
Rising(s)  == \A j, k \in DOMAIN s :
                j < k /\ s[j].pkt # 0 /\ s[k].pkt # 0 => s[j].pkt < s[k].pkt
Below(A, B) == \A a \in A, b \in B : a < b

Whole(s) ==
  \A k \in DOMAIN s :
    LET before == IF k = 1 THEN "trailer" ELSE s[k - 1].ev IN
    IF s[k].ev = "header" THEN before = "trailer" ELSE before # "trailer"
Converted(s) == \A k \in DOMAIN s : s[k].pkt # 0 => s[k].scaled = 1
IsOpen(s) == s # <<>> /\ s[Len(s)].ev # "trailer"

-----------------------------------------------------------------------------
(* Types, which the recovery of the output needs more of: an error is only *)
(* OK where there is something to recover from.                            *)

InTypes ==
  /\ inq \in Seq(Pkts) /\ Len(inq) <= thread_queue_size
  /\ in_err_send \in Errors \cup {NoError} /\ in_err_recv \in Errors \cup {NoError}
  /\ in_ret \in [InputUsers -> Pkts \cup Errors \cup {OK, EAGAIN}]
  /\ non_blocking \in BOOLEAN /\ flags \in BOOLEAN
  /\ ipc \in {"none", "read", "send", "report", "dead"}
  /\ nread \in 0 .. MaxPkts

InFlow ==
  /\ ipc = "send" => nread # 0
  /\ ipc = "report" => in_ret["input"] \in Errors

OutTypes ==
  /\ fifo \in Options
  /\ queue \in Seq(Messages) /\ Len(queue) <= queue_size
  /\ out_err_send \in Errors \cup {NoError} /\ out_err_recv \in {NoError, EOF}
  /\ out_ret \in [FifoUsers -> Messages \cup Errors \cup {OK, EAGAIN}]
  /\ overflow_flag \in BOOLEAN
  /\ write_trailer_ret \in Errors \cup {OK, EAGAIN}

WriterTypes ==
  /\ wpc \in {"none", "dispatch", "recover", "check", "recv", "fail", "end", "dead"}
  /\ msg \in Given
  /\ ret \in Errors \cup {OK, EAGAIN}
  /\ recovery_nr \in Nat
  /\ drop_until_keyframe \in BOOLEAN /\ header_written \in BOOLEAN
  /\ output \in Seq(OutEvents)
  /\ faults \in 0 .. MaxFaults

\* The errors of a dispatch.
Fault(e) == e \in Faults \/ (e = EAGAIN /\ fifo.again)

WriterFlow ==
  /\ wpc \in {"none", "dispatch"} => msg.scaled = 0
  /\ wpc = "none" => msg.pkt = 0
  /\ recovery_nr > 0 => fifo.attempt_recovery
  /\ wpc = "recover" => Fault(ret) \/ (ret = OK /\ recovery_nr > 0)
  /\ wpc = "fail" => ret \in Errors
  /\ ~fifo.again /\ fifo.max_recovery_attempts # 0 /\ wpc \notin {"fail", "end", "dead"}
       => recovery_nr < fifo.max_recovery_attempts

MainTypes ==
  /\ pc \in {"header", "start", "get", "write", "overflow", "free", "drain", "join",
             "trailer", "wait", "closed"}
  /\ outgoing \in Messages /\ complete \in BOOLEAN

Types == InTypes /\ InFlow /\ OutTypes /\ WriterTypes /\ WriterFlow /\ MainTypes

\* The writer was waited for.
Waited == pc = "closed" => wpc = "dead"

-----------------------------------------------------------------------------
(* The input, as long as the main thread copies it: the queue holds the    *)
(* packets that were sent and not taken, without a gap.                    *)

Copying == pc \in {"header", "start", "get", "write", "overflow"}
Sent    == IF ipc = "send" THEN nread - 1 ELSE nread
Taken   == Sent - Len(inq)
Passed  == IF pc = "write" /\ outgoing # Flush THEN Taken - 1 ELSE Taken

InputOrder ==
  /\ Copying =>
       /\ in_err_send = NoError /\ ipc # "report"
       /\ in_err_recv # NoError => ipc = "dead"
       /\ in_err_recv = EOF => nread = MaxPkts
       /\ \A k \in 1 .. Len(inq) : inq[k] = Taken + k
       /\ pc = "write" /\ outgoing # Flush => outgoing.pkt = Taken
       /\ complete => pc \in {"write", "overflow"} /\ outgoing = Flush

-----------------------------------------------------------------------------
(* The files, and who ends what.                                           *)

OutputFiles ==
  /\ Whole(output)
  /\ wpc # "dead" => (header_written <=> IsOpen(output))
  /\ wpc = "dead" => ~IsOpen(output)

Conversions ==
  \/ fifo.attempt_recovery
  \/ Converted(output)

NoDrop ==
  ~fifo.drop_pkts_on_overflow => ~drop_until_keyframe /\ ~overflow_flag /\ pc # "overflow"

\* The output ends without an error only once there is nothing left to write.
Endings ==
  /\ out_err_recv # NoError => pc \in {"wait", "closed"}
  /\ out_err_send # NoError => wpc \in {"end", "dead"}
  /\ wpc = "fail" /\ ret = EOF => queue = <<>> /\ out_err_recv = EOF
  /\ wpc \in {"end", "dead"} /\ out_err_send = EOF => queue = <<>> /\ out_err_recv = EOF

-----------------------------------------------------------------------------
(* The packets, from the output over the writer's hand to the queue.       *)

Hand == IF wpc \in {"dispatch", "recover"} THEN {msg.pkt} \ {0} ELSE {}
Line == Numbers(output) \cup Hand \cup Numbers(queue)

Ordered ==
  /\ Rising(output) /\ Rising(queue)
  /\ Below(Numbers(output), Hand) /\ Below(Numbers(output), Numbers(queue))
  /\ Below(Hand, Numbers(queue))
  /\ Copying => \A n \in Line : n <= Passed

Fine == /\ wpc = "fail" => ret = EOF
        /\ wpc \in {"end", "dead"} => out_err_send = EOF

Kept ==
  ~fifo.drop_pkts_on_overflow /\ Fine =>
    /\ complete => Pkts \subseteq Line
    /\ Copying => 1 .. Passed \subseteq Line

-----------------------------------------------------------------------------
(* Lemmas about sequences of numbered elements.                            *)

USE DEF Pkts

LEMMA EmptyNumbers == Numbers(<<>>) = {} /\ Rising(<<>>) /\ Whole(<<>>) /\ ~IsOpen(<<>>)
BY DEF Numbers, Rising, Whole, IsOpen

\* An element that is appended keeps a rising sequence rising when it is no packet
\* or comes after all of them.
LEMMA AppendNumber ==
  ASSUME NEW S, \A x \in S : x.pkt \in Nat, NEW s \in Seq(S), NEW e \in S
  PROVE  /\ Numbers(Append(s, e)) = Numbers(s) \cup ({e.pkt} \ {0})
         /\ Rising(s) /\ Below(Numbers(s), {e.pkt} \ {0}) => Rising(Append(s, e))
<1> DEFINE t == Append(s, e)
<1>1. /\ DOMAIN s = 1 .. Len(s) /\ Len(s) \in Nat
      /\ DOMAIN t = 1 .. Len(s) + 1
      /\ \A k \in 1 .. Len(s) : t[k] = s[k]
      /\ t[Len(s) + 1] = e
  <2>1. t \in Seq(S) /\ Len(t) = Len(s) + 1
    BY AppendProperties
  <2> QED BY <2>1, AppendProperties, LenProperties
<1> HIDE DEF t
<1>2. Numbers(t) = Numbers(s) \cup ({e.pkt} \ {0})
  BY <1>1 DEF Numbers
<1>3. ASSUME Rising(s), Below(Numbers(s), {e.pkt} \ {0})
      PROVE  Rising(t)
  <2> SUFFICES ASSUME NEW j \in DOMAIN t, NEW k \in DOMAIN t, j < k,
                      t[j].pkt # 0, t[k].pkt # 0
               PROVE  t[j].pkt < t[k].pkt
    BY DEF Rising
  <2>1. j \in DOMAIN s /\ t[j] = s[j]
    BY <1>1
  <2>2. CASE k \in DOMAIN s
    BY <2>1, <2>2, <1>1, <1>3 DEF Rising
  <2>3. CASE k = Len(s) + 1
    <3>1. s[j].pkt \in Numbers(s) /\ t[k].pkt \in {e.pkt} \ {0}
      BY <2>1, <2>3, <1>1 DEF Numbers
    <3> QED BY <3>1, <2>1, <1>3 DEF Below
  <2> QED BY <2>2, <2>3, <1>1
<1> QED BY <1>2, <1>3 DEF t

\* The head of a rising sequence comes before its tail.
LEMMA TailNumbers ==
  ASSUME NEW S, \A x \in S : x.pkt \in Nat, NEW s \in Seq(S), s # <<>>
  PROVE  /\ Numbers(s) = Numbers(Tail(s)) \cup ({Head(s).pkt} \ {0})
         /\ Rising(s) => Rising(Tail(s)) /\ Below({Head(s).pkt} \ {0}, Numbers(Tail(s)))
<1> DEFINE t == Tail(s)
<1>1. /\ DOMAIN s = 1 .. Len(s) /\ Len(s) \in Nat \ {0}
      /\ DOMAIN t = 1 .. Len(s) - 1
      /\ \A k \in 1 .. Len(s) - 1 : t[k] = s[k + 1]
  <2>1. t \in Seq(S) /\ Len(t) = Len(s) - 1
    BY HeadTailProperties
  <2> QED BY <2>1, HeadTailProperties, LenProperties, EmptySeq
<1>2. Head(s) = s[1]
  OBVIOUS
<1> HIDE DEF t
<1>3. Numbers(s) = Numbers(t) \cup ({s[1].pkt} \ {0})
  <2>1. ASSUME NEW n \in Numbers(s) PROVE n \in Numbers(t) \cup ({s[1].pkt} \ {0})
    <3>1. PICK k \in DOMAIN s : n = s[k].pkt
      BY <2>1 DEF Numbers
    <3>2. CASE k # 1
      <4>1. k - 1 \in DOMAIN t /\ t[k - 1] = s[k]
        BY <1>1, <3>2
      <4> QED BY <4>1, <3>1, <2>1 DEF Numbers
    <3> QED BY <3>1, <3>2, <2>1 DEF Numbers
  <2>2. ASSUME NEW n \in Numbers(t) PROVE n \in Numbers(s)
    <3>1. PICK k \in DOMAIN t : n = t[k].pkt
      BY <2>2 DEF Numbers
    <3>2. k + 1 \in DOMAIN s /\ s[k + 1] = t[k]
      BY <1>1
    <3> QED BY <3>1, <3>2, <2>2 DEF Numbers
  <2>3. 1 \in DOMAIN s
    BY <1>1
  <2> QED BY <2>1, <2>2, <2>3 DEF Numbers
<1>4. ASSUME Rising(s) PROVE Rising(t)
  <2> SUFFICES ASSUME NEW j \in DOMAIN t, NEW k \in DOMAIN t, j < k,
                      t[j].pkt # 0, t[k].pkt # 0
               PROVE  t[j].pkt < t[k].pkt
    BY DEF Rising
  <2>1. /\ j + 1 \in DOMAIN s /\ s[j + 1] = t[j]
        /\ k + 1 \in DOMAIN s /\ s[k + 1] = t[k] /\ j + 1 < k + 1
    BY <1>1
  <2> QED BY <2>1, <1>4 DEF Rising
<1>5. ASSUME Rising(s) PROVE Below({s[1].pkt} \ {0}, Numbers(t))
  <2> SUFFICES ASSUME NEW k \in DOMAIN t, t[k].pkt # 0, s[1].pkt # 0
               PROVE  s[1].pkt < t[k].pkt
    BY DEF Below, Numbers
  <2>1. 1 \in DOMAIN s /\ k + 1 \in DOMAIN s /\ t[k] = s[k + 1] /\ 1 < k + 1
    BY <1>1
  <2> QED BY <2>1, <1>5 DEF Rising
<1> QED BY <1>2, <1>3, <1>4, <1>5 DEF t

\* What the underlying muxer may write next: a header while no file is open, a
\* packet or the trailer while one is.
LEMMA AppendEvent ==
  ASSUME NEW s \in Seq(OutEvents), NEW e \in OutEvents, Whole(s),
         e.ev = "header" <=> ~IsOpen(s)
  PROVE  /\ Append(s, e) \in Seq(OutEvents)
         /\ Whole(Append(s, e)) /\ (IsOpen(Append(s, e)) <=> e.ev # "trailer")
<1> DEFINE t == Append(s, e)
<1>1. /\ DOMAIN s = 1 .. Len(s) /\ Len(s) \in Nat
      /\ t \in Seq(OutEvents) /\ t # <<>>
      /\ DOMAIN t = 1 .. Len(s) + 1 /\ Len(t) = Len(s) + 1
      /\ \A k \in 1 .. Len(s) : t[k] = s[k]
      /\ t[Len(s) + 1] = e
  <2>1. t \in Seq(OutEvents) /\ Len(t) = Len(s) + 1
    BY AppendProperties
  <2> QED BY <2>1, AppendProperties, LenProperties
<1>2. s = <<>> <=> Len(s) = 0
  BY EmptySeq
<1>3. s # <<>> => s[Len(s)] \in OutEvents
  BY <1>1, <1>2, ElementOfSeq
<1> HIDE DEF t
<1>4. IsOpen(t) <=> e.ev # "trailer"
  BY <1>1 DEF IsOpen
<1>5. Whole(t)
  <2> SUFFICES ASSUME NEW k \in DOMAIN t
               PROVE  LET before == IF k = 1 THEN "trailer" ELSE t[k - 1].ev IN
                      IF t[k].ev = "header" THEN before = "trailer" ELSE before # "trailer"
    BY DEF Whole
  <2>1. CASE k \in DOMAIN s
    <3>1. t[k] = s[k] /\ (k # 1 => t[k - 1] = s[k - 1])
      BY <2>1, <1>1
    <3> QED BY <3>1, <2>1 DEF Whole
  <2>2. CASE k = Len(s) + 1
    <3>1. t[k] = e /\ (k # 1 => t[k - 1] = s[Len(s)])
      BY <2>2, <1>1
    <3>2. k = 1 <=> s = <<>>
      BY <2>2, <1>2, <1>1
    <3> QED BY <3>1, <3>2 DEF IsOpen
  <2> QED BY <2>1, <2>2, <1>1
<1> QED BY <1>1, <1>4, <1>5 DEF t

LEMMA AppendConversions ==
  ASSUME NEW s \in Seq(OutEvents), NEW e \in OutEvents,
         \A k \in DOMAIN s : s[k].pkt # 0 => s[k].scaled = 1,
         e.pkt # 0 => e.scaled = 1
  PROVE  \A k \in DOMAIN Append(s, e) : Append(s, e)[k].pkt # 0 => Append(s, e)[k].scaled = 1
<1>1. Append(s, e) \in Seq(OutEvents) /\ Len(Append(s, e)) = Len(s) + 1
  BY AppendProperties
<1> QED BY <1>1, AppendProperties, LenProperties

-----------------------------------------------------------------------------
(* The underlying muxer.                                                   *)

HeaderEvent  == [ev |-> "header", pkt |-> 0, scaled |-> 0]
TrailerEvent == [ev |-> "trailer", pkt |-> 0, scaled |-> 0]
PacketEvent(m) == [ev |-> "packet", pkt |-> m.pkt, scaled |-> m.scaled + 1]

LEMMA PktsAreNumbers ==
  /\ MaxPkts \in Nat /\ 0 \notin Pkts /\ Pkts \subseteq Nat
  /\ \A x \in OutEvents : x.pkt \in Nat
  /\ \A x \in Messages : x.pkt \in Nat
BY KeysAssumption DEF OutEvents, Messages, Flush, Packet, Message

\* A message that the writer may have in hand.
LEMMA GivenFields ==
  ASSUME NEW m \in Given
  PROVE  /\ m.scaled \in Nat /\ m.pkt \in Nat
         /\ m.type \in {"header", "packet", "flush"}
         /\ m.type = "packet" <=> m.pkt # 0
         /\ m.type = "packet" => m.pkt \in Pkts
         /\ m.type # "packet" => m.scaled = 0
         /\ m.type = "packet" => /\ [m EXCEPT !.scaled = @ + 1] \in Given
                                 /\ [m EXCEPT !.scaled = @ + 1].pkt = m.pkt
                                 /\ PacketEvent(m) \in OutEvents
<1>1. CASE m \in {Header, Flush}
  BY <1>1 DEF Header, Flush, Message
<1>2. CASE m \in [type : {"packet"}, pkt : Pkts, scaled : Nat]
  <2>1. /\ m.type = "packet" /\ m.pkt \in Pkts /\ m.scaled \in Nat
        /\ m = [type |-> "packet", pkt |-> m.pkt, scaled |-> m.scaled]
    BY <1>2
  <2>2. [m EXCEPT !.scaled = @ + 1] = [type |-> "packet", pkt |-> m.pkt, scaled |-> m.scaled + 1]
    BY <2>1
  <2> QED BY <2>1, <2>2, PktsAreNumbers DEF Given, PacketEvent, OutEvents
<1> QED BY <1>1, <1>2 DEF Given

LEMMA MessagesAreGiven ==
  ASSUME NEW m \in Messages
  PROVE  m \in Given /\ m.scaled = 0 /\ (m = Flush <=> m.pkt = 0) /\ (m # Flush => m.pkt \in Pkts)
BY PktsAreNumbers DEF Messages, Given, Flush, Packet, Message

LEMMA SingletonConcat ==
  ASSUME NEW a, NEW b
  PROVE  <<a>> \o <<>> = <<a>> /\ <<a>> \o <<b>> = <<a, b>>
<1> DEFINE S == {a, b}
<1>1. <<a>> \in Seq(S) /\ <<b>> \in Seq(S) /\ <<a, b>> \in Seq(S)
  OBVIOUS
<1>2. <<a>> \o <<>> = <<a>>
  BY <1>1, ConcatEmptySeq
<1>3. <<a>> \o <<b>> = <<a, b>>
  <2>1. /\ <<a>> \o <<b>> \in Seq(S) /\ Len(<<a>> \o <<b>>) = 2
        /\ (<<a>> \o <<b>>)[1] = a /\ (<<a>> \o <<b>>)[2] = b
    BY <1>1, ConcatProperties
  <2>2. \A k \in 1 .. Len(<<a>> \o <<b>>) : (<<a>> \o <<b>>)[k] = <<a, b>>[k]
    BY <2>1
  <2> QED BY <1>1, <2>1, <2>2, SeqEqual
<1> QED BY <1>2, <1>3

\* What a dispatch may come to.
Outcome(m, drop, o) ==
  /\ o.ret \in {OK} \cup Failures
  /\ o.msg \in Given /\ o.msg.pkt = m.pkt
  /\ o.drop \in BOOLEAN /\ (o.drop => drop)
  /\ \/ /\ o.out = <<>> \/ (o.out = <<HeaderEvent>> /\ ~header_written)
        /\ m.type = "packet" /\ o.ret = OK => drop
     \/ /\ o.out = <<PacketEvent(m)>> /\ header_written
        /\ m.type = "packet" /\ o.ret = OK
     \/ /\ o.out = <<HeaderEvent, PacketEvent(m)>> /\ ~header_written
        /\ m.type = "packet" /\ o.ret = OK

LEMMA DispatchOutcome ==
  ASSUME NEW m \in Given, NEW drop \in BOOLEAN,
         header_written \in BOOLEAN,
         NEW o \in fifo_thread_dispatch_message(m, drop)
  PROVE  Outcome(m, drop, o)
<1> DEFINE heads == IF header_written THEN {[ret |-> OK, written |-> TRUE]}
                    ELSE fifo_thread_write_header
           Body(h) == IF h.ret = OK THEN Handled(m, drop) ELSE {Done(h.ret, m, drop, <<>>)}
           WithHeader(h, b) == IF h.written /\ ~header_written
                               THEN Wrote("header", Header) \o b ELSE b
<1>1. PICK h \in heads : \E b \in Body(h) : o = [b EXCEPT !.out = WithHeader(h, @)]
  BY DEF fifo_thread_dispatch_message
<1>2. PICK b \in Body(h) : o = [b EXCEPT !.out = WithHeader(h, @)]
  BY <1>1
<1>3. OK \notin Failures
  BY FaultsAssumption, CodesAssumption DEF Failures
<1>4. /\ h.ret \in {OK} \cup Failures /\ h.written \in BOOLEAN
      /\ h.ret = OK => h.written
      /\ h.ret # OK => ~header_written
  <2>1. CASE header_written
    <3>1. h = [ret |-> OK, written |-> TRUE]
      BY <2>1
    <3> QED BY <3>1
  <2>2. CASE ~header_written
    <3>1. \/ h = [ret |-> OK, written |-> TRUE]
          \/ \E e \in Failures : h = [ret |-> e, written |-> FALSE]
          \/ \E e \in Failures : h = [ret |-> e, written |-> TRUE]
      BY <2>2 DEF fifo_thread_write_header
    <3>2. CASE h = [ret |-> OK, written |-> TRUE]
      BY <3>2, <2>2
    <3>3. CASE \E e \in Failures : h = [ret |-> e, written |-> FALSE]
      <4>1. PICK e \in Failures : h = [ret |-> e, written |-> FALSE]
        BY <3>3
      <4> QED BY <4>1, <2>2, <1>3
    <3>4. CASE \E e \in Failures : h = [ret |-> e, written |-> TRUE]
      <4>1. PICK e \in Failures : h = [ret |-> e, written |-> TRUE]
        BY <3>4
      <4> QED BY <4>1, <2>2, <1>3
    <3> QED BY <3>1, <3>2, <3>3, <3>4
  <2> QED BY <2>1, <2>2
<1>5. /\ b = Done(b.ret, b.msg, b.drop, b.out)
      /\ b.ret \in {OK} \cup Failures
      /\ h.ret # OK => b.ret = h.ret
      /\ b.msg \in Given /\ b.msg.pkt = m.pkt
      /\ b.drop \in BOOLEAN /\ (b.drop => drop)
      /\ b.out \in {<<>>, <<PacketEvent(m)>>}
      /\ b.out = <<>> => (m.type = "packet" /\ b.ret = OK => drop)
      /\ b.out # <<>> => m.type = "packet" /\ b.ret = OK /\ h.ret = OK
  <2>1. CASE h.ret # OK
    BY <2>1, <1>3, <1>4 DEF Done
  <2>2. CASE h.ret = OK /\ m.type # "packet"
    <3>1. b \in {Done(e, m, drop, <<>>) : e \in {OK} \cup Failures}
      BY <2>2, GivenFields DEF Handled
    <3> QED BY <3>1, <2>2 DEF Done
  <2>3. CASE h.ret = OK /\ m.type = "packet"
    <3> DEFINE n == [m EXCEPT !.scaled = @ + 1]
    <3>1. b \in fifo_thread_write_packet(m, drop)
      BY <2>3, GivenFields DEF Handled
    <3>2. n \in Given /\ n.pkt = m.pkt /\ n.scaled = m.scaled + 1
      <4>1. \E x, y, z : m = [type |-> x, pkt |-> y, scaled |-> z]
        BY DEF Given, Header, Flush, Message
      <4> QED BY <4>1, <2>3, GivenFields
    <3>3. Wrote("packet", n) = <<PacketEvent(m)>>
      BY <3>2 DEF Wrote, PacketEvent
    <3> HIDE DEF n
    <3>4. \/ drop /\ b = Done(OK, m, TRUE, <<>>)
          \/ b = Done(OK, n, FALSE, <<PacketEvent(m)>>)
          \/ \E e \in Failures : b = Done(e, n, FALSE, <<>>)
      BY <3>1, <3>3 DEF fifo_thread_write_packet, n
    <3>5. CASE drop /\ b = Done(OK, m, TRUE, <<>>)
      BY <3>5, <2>3, <1>3 DEF Done
    <3>6. CASE b = Done(OK, n, FALSE, <<PacketEvent(m)>>)
      <4>1. <<PacketEvent(m)>> # <<>>
        OBVIOUS
      <4> QED BY <3>6, <3>2, <2>3, <1>3, <4>1 DEF Done
    <3>7. CASE \E e \in Failures : b = Done(e, n, FALSE, <<>>)
      BY <3>7, <3>2, <2>3, <1>3 DEF Done
    <3> QED BY <3>4, <3>5, <3>6, <3>7
  <2> QED BY <2>1, <2>2, <2>3
<1>6. /\ o.ret = b.ret /\ o.msg = b.msg /\ o.drop = b.drop /\ o.out = WithHeader(h, b.out)
  BY <1>2, <1>5 DEF Done
<1>7. /\ Wrote("header", Header) \o <<>> = <<HeaderEvent>>
      /\ Wrote("header", Header) \o <<PacketEvent(m)>> = <<HeaderEvent, PacketEvent(m)>>
  <2>1. Wrote("header", Header) = <<HeaderEvent>>
    BY DEF Wrote, Header, Message, HeaderEvent
  <2> QED BY <2>1, SingletonConcat
<1> HIDE DEF heads, Body
<1> QED BY <1>3, <1>4, <1>5, <1>6, <1>7 DEF Outcome

\* What the output becomes, for a message m that comes after it.
Continues(s, t, m) ==
  /\ t \in Seq(OutEvents) /\ Whole(t)
  /\ Rising(s) /\ Below(Numbers(s), {m.pkt} \ {0}) => Rising(t)
  /\ Converted(s) /\ m.scaled = 0 => Converted(t)

LEMMA EventsWritten ==
  /\ HeaderEvent \in OutEvents /\ HeaderEvent.pkt = 0 /\ HeaderEvent.ev = "header"
  /\ TrailerEvent \in OutEvents /\ TrailerEvent.pkt = 0 /\ TrailerEvent.ev = "trailer"
  /\ \A m \in Given : /\ PacketEvent(m).pkt = m.pkt /\ PacketEvent(m).ev = "packet"
                      /\ m.scaled = 0 => PacketEvent(m).scaled = 1
BY DEF HeaderEvent, TrailerEvent, PacketEvent, OutEvents

\* A header or a trailer is written.
LEMMA MarkWritten ==
  ASSUME NEW s \in Seq(OutEvents), Whole(s), NEW m,
         NEW e \in {HeaderEvent, TrailerEvent}, e.ev = "header" <=> ~IsOpen(s)
  PROVE  /\ s \o <<e>> \in Seq(OutEvents) /\ s \o <<e>> = Append(s, e)
         /\ Continues(s, s \o <<e>>, m)
         /\ Numbers(s \o <<e>>) = Numbers(s)
         /\ IsOpen(s \o <<e>>) <=> e.ev = "header"
<1>1. e \in OutEvents /\ e.pkt = 0 /\ (e.ev = "header" <=> e.ev # "trailer")
  BY EventsWritten
<1>2. s \o <<e>> = Append(s, e)
  BY <1>1, AppendIsConcat
<1>3. /\ Append(s, e) \in Seq(OutEvents)
      /\ Whole(Append(s, e)) /\ (IsOpen(Append(s, e)) <=> e.ev # "trailer")
  BY <1>1, AppendEvent
<1>4. {e.pkt} \ {0} = {} /\ Below(Numbers(s), {e.pkt} \ {0})
  BY <1>1 DEF Below
<1>5. /\ Numbers(Append(s, e)) = Numbers(s) \cup ({e.pkt} \ {0})
      /\ Rising(s) /\ Below(Numbers(s), {e.pkt} \ {0}) => Rising(Append(s, e))
  BY <1>1, AppendNumber, PktsAreNumbers
<1>6. Converted(s) => Converted(Append(s, e))
  BY <1>1, AppendConversions DEF Converted
<1> QED BY <1>1, <1>2, <1>3, <1>4, <1>5, <1>6 DEF Continues

LEMMA PacketWritten ==
  ASSUME NEW s \in Seq(OutEvents), Whole(s), IsOpen(s),
         NEW m \in Given, m.type = "packet"
  PROVE  /\ Continues(s, s \o <<PacketEvent(m)>>, m)
         /\ Numbers(s \o <<PacketEvent(m)>>) = Numbers(s) \cup ({m.pkt} \ {0})
         /\ IsOpen(s \o <<PacketEvent(m)>>)
<1> DEFINE e == PacketEvent(m)
<1>1. /\ e \in OutEvents /\ e.pkt = m.pkt /\ e.ev = "packet"
      /\ m.scaled = 0 => e.scaled = 1
  BY EventsWritten, GivenFields
<1> HIDE DEF e
<1>2. s \o <<e>> = Append(s, e)
  BY <1>1, AppendIsConcat
<1>3. /\ Append(s, e) \in Seq(OutEvents)
      /\ Whole(Append(s, e)) /\ (IsOpen(Append(s, e)) <=> e.ev # "trailer")
  BY <1>1, AppendEvent
<1>4. /\ Numbers(Append(s, e)) = Numbers(s) \cup ({e.pkt} \ {0})
      /\ Rising(s) /\ Below(Numbers(s), {e.pkt} \ {0}) => Rising(Append(s, e))
  BY <1>1, AppendNumber, PktsAreNumbers
<1>5. Converted(s) /\ m.scaled = 0 => Converted(Append(s, e))
  BY <1>1, AppendConversions DEF Converted
<1>6. /\ Continues(s, s \o <<e>>, m)
      /\ Numbers(s \o <<e>>) = Numbers(s) \cup ({m.pkt} \ {0})
      /\ IsOpen(s \o <<e>>)
  BY <1>1, <1>2, <1>3, <1>4, <1>5 DEF Continues
<1> QED BY <1>6 DEF e

\* A dispatch writes the message unless it fails or drops it.
DispatchEffect(m, drop, r, t) ==
  /\ Continues(output, t, m)
  /\ Numbers(output) \subseteq Numbers(t) /\ Numbers(t) \subseteq Numbers(output) \cup ({m.pkt} \ {0})
  /\ r # OK => Numbers(t) = Numbers(output)
  /\ r = OK /\ ~drop => Numbers(t) = Numbers(output) \cup ({m.pkt} \ {0})

LEMMA DispatchWrites ==
  ASSUME NEW m \in Given, NEW drop \in BOOLEAN, header_written \in BOOLEAN,
         output \in Seq(OutEvents), Whole(output), header_written <=> IsOpen(output),
         NEW o, Outcome(m, drop, o)
  PROVE  LET t == output \o o.out
             h == header_written \/ (o.out # <<>> /\ o.out[1].ev = "header") IN
         DispatchEffect(m, drop, o.ret, t) /\ (h <=> IsOpen(t))
<1> DEFINE P(out) ==
      LET t == output \o out
          h == header_written \/ (out # <<>> /\ out[1].ev = "header") IN
      DispatchEffect(m, drop, o.ret, t) /\ (h <=> IsOpen(t))
<1>1. m.type # "packet" => {m.pkt} \ {0} = {}
  BY GivenFields
<1>2. CASE o.out = <<>> /\ (m.type = "packet" /\ o.ret = OK => drop)
  <2>1. output \o <<>> = output
    BY ConcatEmptySeq
  <2>2. Continues(output, output, m)
    BY DEF Continues
  <2> QED BY <1>1, <1>2, <2>1, <2>2 DEF DispatchEffect
<1>3. CASE /\ o.out = <<HeaderEvent>> /\ ~header_written
           /\ (m.type = "packet" /\ o.ret = OK => drop)
  <2>1. /\ Continues(output, output \o <<HeaderEvent>>, m)
        /\ Numbers(output \o <<HeaderEvent>>) = Numbers(output)
        /\ IsOpen(output \o <<HeaderEvent>>)
    BY <1>3, MarkWritten, EventsWritten
  <2>2. <<HeaderEvent>> # <<>> /\ <<HeaderEvent>>[1].ev = "header"
    BY EventsWritten
  <2> QED BY <1>1, <1>3, <2>1, <2>2 DEF DispatchEffect
<1>4. CASE /\ o.out = <<PacketEvent(m)>> /\ header_written
           /\ m.type = "packet" /\ o.ret = OK
  BY <1>4, PacketWritten DEF DispatchEffect
<1>5. CASE /\ o.out = <<HeaderEvent, PacketEvent(m)>> /\ ~header_written
           /\ m.type = "packet" /\ o.ret = OK
  <2> DEFINE u == output \o <<HeaderEvent>>
             t == output \o <<HeaderEvent, PacketEvent(m)>>
  <2>1. /\ Continues(output, u, m) /\ Numbers(u) = Numbers(output) /\ IsOpen(u)
    BY <1>5, MarkWritten, EventsWritten
  <2>2. u \in Seq(OutEvents) /\ Whole(u)
    BY <2>1 DEF Continues
  <2>3. t = u \o <<PacketEvent(m)>>
    <3>1. PacketEvent(m) \in OutEvents /\ HeaderEvent \in OutEvents
      BY <1>5, EventsWritten, GivenFields
    <3>2. <<PacketEvent(m)>> \in Seq(OutEvents) /\ <<HeaderEvent>> \in Seq(OutEvents)
      BY <3>1
    <3>3. u \o <<PacketEvent(m)>> = output \o (<<HeaderEvent>> \o <<PacketEvent(m)>>)
      BY <3>2, ConcatAssociative
    <3> QED BY <3>3, SingletonConcat
  <2> HIDE DEF u
  <2>4. /\ Continues(u, t, m) /\ Numbers(t) = Numbers(u) \cup ({m.pkt} \ {0}) /\ IsOpen(t)
    BY <1>5, <2>1, <2>2, <2>3, PacketWritten
  <2>5. Continues(output, t, m)
    BY <2>1, <2>4 DEF Continues
  <2>6. <<HeaderEvent, PacketEvent(m)>> # <<>> /\ <<HeaderEvent, PacketEvent(m)>>[1].ev = "header"
    BY EventsWritten
  <2>7. o.out = <<HeaderEvent, PacketEvent(m)>> /\ output \o o.out = t
    BY <1>5
  <2> HIDE DEF t
  <2> QED BY <1>5, <2>1, <2>4, <2>5, <2>6, <2>7 DEF DispatchEffect
<1> QED BY <1>2, <1>3, <1>4, <1>5 DEF Outcome

\* The trailer: it closes the file that is open.
LEMMA TrailerWrites ==
  ASSUME Types, Whole(output), header_written <=> IsOpen(output), NEW m,
         fifo_thread_write_trailer
  PROVE  /\ Continues(output, output', m)
         /\ Numbers(output') = Numbers(output) /\ ~IsOpen(output')
         /\ write_trailer_ret' \in Errors \cup {OK, EAGAIN} /\ faults' \in 0 .. MaxFaults
<1>1. output \in Seq(OutEvents) /\ faults \in 0 .. MaxFaults
  BY DEF Types, WriterTypes
<1>2. CASE header_written
  <2>1. output' = output \o <<TrailerEvent>>
    BY <1>2 DEF fifo_thread_write_trailer, Wrote, Header, Message, TrailerEvent
  <2>2. /\ Continues(output, output \o <<TrailerEvent>>, m)
        /\ Numbers(output \o <<TrailerEvent>>) = Numbers(output)
        /\ ~IsOpen(output \o <<TrailerEvent>>)
    BY <1>1, <1>2, EventsWritten, MarkWritten
  <2>3. write_trailer_ret' \in Errors \cup {OK, EAGAIN} /\ faults' \in 0 .. MaxFaults
    <3>1. \A e \in Failures : e \in Errors \cup {EAGAIN} /\ (fifo.outage \/ faults < MaxFaults)
      BY FaultsAssumption DEF Failures
    <3>2. faults' = faults \/ (faults < MaxFaults /\ faults' = faults + 1)
      BY <1>2, <3>1 DEF fifo_thread_write_trailer, Failed
    <3> QED BY <1>1, <1>2, <3>1, <3>2, FaultsAssumption DEF fifo_thread_write_trailer
  <2> QED BY <2>1, <2>2, <2>3
<1>3. CASE ~header_written
  <2>1. output' = output /\ write_trailer_ret' = OK /\ faults' = faults
    BY <1>3 DEF fifo_thread_write_trailer
  <2> QED BY <1>1, <1>3, <2>1 DEF Continues
<1> QED BY <1>2, <1>3

-----------------------------------------------------------------------------
(* Types, action by action: first the input's queue and thread.            *)

\* An element put at the end of a queue with room, or taken from its head.
LEMMA QueueTypes ==
  ASSUME NEW S, NEW s \in Seq(S), NEW cap \in Nat, Len(s) <= cap
  PROVE  /\ \A e \in S : Len(s) < cap => Append(s, e) \in Seq(S) /\ Len(Append(s, e)) <= cap
         /\ s # <<>> => Tail(s) \in Seq(S) /\ Len(Tail(s)) <= cap /\ Head(s) \in S
         /\ <<>> \in Seq(S) /\ Len(<<>>) <= cap
<1>1. Len(s) \in Nat /\ (s # <<>> => Len(s) > 0)
  BY LenProperties, EmptySeq
<1>2. ASSUME NEW e \in S, Len(s) < cap
      PROVE  Append(s, e) \in Seq(S) /\ Len(Append(s, e)) <= cap
  BY <1>1, <1>2, AppendProperties
<1>3. ASSUME s # <<>>
      PROVE  Tail(s) \in Seq(S) /\ Len(Tail(s)) <= cap /\ Head(s) \in S
  BY <1>1, <1>3, HeadTailProperties
<1>4. <<>> \in Seq(S) /\ Len(<<>>) <= cap
  BY EmptySeq
<1> QED BY <1>2, <1>3, <1>4

LEMMA InputTypes ==
  ASSUME Types, input_thread
  PROVE  InTypes' /\ InFlow'
<1> USE DEF Types, InTypes, InFlow
<1>1. CASE ReadPacket
  BY <1>1, PktsAreNumbers DEF ReadPacket, inQueue
<1>2. CASE ReadFails
  <2>1. in_err_recv' \in Errors
    BY <1>2 DEF ReadFails, In!SetErrRecv, Errors
  <2> QED BY <1>2, <2>1 DEF ReadFails, In!SetErrRecv
<1>3. CASE SendPacket
  <2>1. nread \in Pkts
    BY <1>3, PktsAreNumbers DEF SendPacket
  <2>2. inq' \in Seq(Pkts) /\ Len(inq') <= thread_queue_size
    BY <1>3, <2>1, QueueTypes, QueueAssumption DEF SendPacket, In!Put
  <2>3. in_ret' = [in_ret EXCEPT !["input"] = OK]
    BY <1>3 DEF SendPacket, In!Put, In!Return
  <2> HIDE DEF Pkts
  <2> QED BY <1>3, <2>2, <2>3 DEF SendPacket, In!Put, InputUsers
<1>4. CASE SendWouldBlock
  <2> HIDE DEF Pkts
  <2>1. in_ret' = [in_ret EXCEPT !["input"] = EAGAIN]
    BY <1>4 DEF SendWouldBlock, In!TryAgain, In!Return
  <2> QED BY <1>4, <2>1 DEF SendWouldBlock, In!TryAgain, InputUsers
<1>5. CASE SendFails
  <2> HIDE DEF Pkts
  <2>1. in_ret' = [in_ret EXCEPT !["input"] = in_err_send] /\ in_err_send \in Errors
    BY <1>5 DEF SendFails, In!PutError, In!Return
  <2> QED BY <1>5, <2>1 DEF SendFails, In!PutError, InputUsers
<1>6. CASE ReportFailure
  BY <1>6 DEF ReportFailure, In!SetErrRecv
<1> QED BY <1>1, <1>2, <1>3, <1>4, <1>5, <1>6 DEF input_thread

\* What a call of the main thread does to the input's queue.
LEMMA InputCallTypes ==
  ASSUME Types,
         \/ init_input_thread \/ get_input_packet_mt \/ StopInput
         \/ DrainInput \/ DrainEnds \/ JoinInput
  PROVE  InTypes' /\ InFlow'
<1> USE DEF Types, InTypes, InFlow
<1> HIDE DEF Pkts
<1>1. CASE init_input_thread
  BY <1>1 DEF init_input_thread, inQueue
<1>2. ASSUME In!Get("main"), UNCHANGED <<inThread, non_blocking>>
      PROVE  InTypes' /\ InFlow'
  <2>1. inq' \in Seq(Pkts) /\ Len(inq') <= thread_queue_size /\ Head(inq) \in Pkts
    BY <1>2, QueueTypes, QueueAssumption DEF In!Get
  <2>2. in_ret' = [in_ret EXCEPT !["main"] = Head(inq)]
    BY <1>2 DEF In!Get, In!Return
  <2> QED BY <1>2, <2>1, <2>2 DEF In!Get, inThread, InputUsers
<1>3. ASSUME In!GetError("main"), UNCHANGED <<inThread, non_blocking>>
      PROVE  InTypes' /\ InFlow'
  <2>1. in_ret' = [in_ret EXCEPT !["main"] = in_err_recv] /\ in_err_recv \in Errors
    BY <1>3 DEF In!GetError, In!Return
  <2> QED BY <1>3, <2>1 DEF In!GetError, inThread, InputUsers
<1>4. ASSUME In!TryAgain("main"), UNCHANGED <<inThread, non_blocking>>
      PROVE  InTypes' /\ InFlow'
  <2>1. in_ret' = [in_ret EXCEPT !["main"] = EAGAIN]
    BY <1>4 DEF In!TryAgain, In!Return
  <2> QED BY <1>4, <2>1 DEF In!TryAgain, inThread, InputUsers
<1>5. CASE get_input_packet_mt
  BY <1>5, <1>2, <1>3, <1>4 DEF get_input_packet_mt
<1>6. CASE StopInput
  BY <1>6 DEF StopInput, In!SetErrSend, inThread, Errors
<1>7. CASE DrainInput
  BY <1>7, <1>2 DEF DrainInput
<1>8. CASE DrainEnds
  BY <1>8, <1>3 DEF DrainEnds
<1>9. CASE JoinInput
  BY <1>9 DEF JoinInput, inputVars, inQueue, inThread
<1> QED BY <1>1, <1>5, <1>6, <1>7, <1>8, <1>9

-----------------------------------------------------------------------------
(* Types of the muxer and its writer.                                      *)

LEMMA OptionFields ==
  fifo \in Options =>
    /\ fifo.drop_pkts_on_overflow \in BOOLEAN /\ fifo.attempt_recovery \in BOOLEAN
    /\ fifo.recover_any_error \in BOOLEAN /\ fifo.restart_with_keyframe \in BOOLEAN
    /\ fifo.max_recovery_attempts \in Nat
BY DEF Options

LEMMA Dispatches ==
  ASSUME Types, OutputFiles, wpc # "dead", NEW drop \in BOOLEAN,
         NEW o \in fifo_thread_dispatch_message(msg, drop), Dispatched(o)
  PROVE  /\ DispatchEffect(msg, drop, o.ret, output')
         /\ header_written' \in BOOLEAN /\ (header_written' <=> IsOpen(output'))
         /\ msg' \in Given /\ msg'.pkt = msg.pkt
         /\ drop_until_keyframe' \in BOOLEAN /\ (drop_until_keyframe' => drop)
         /\ faults' \in 0 .. MaxFaults
         /\ (o.ret = OK \/ Fault(o.ret))
<1>1. /\ msg \in Given /\ header_written \in BOOLEAN /\ output \in Seq(OutEvents)
      /\ faults \in 0 .. MaxFaults
  BY DEF Types, WriterTypes
<1>2. Whole(output) /\ (header_written <=> IsOpen(output))
  BY DEF OutputFiles
<1>3. Outcome(msg, drop, o)
  BY <1>1, DispatchOutcome
<1> DEFINE t == output \o o.out
           h == header_written \/ (o.out # <<>> /\ o.out[1].ev = "header")
<1>4. DispatchEffect(msg, drop, o.ret, t) /\ (h <=> IsOpen(t))
  BY <1>1, <1>2, <1>3, DispatchWrites
<1>5. output' = t /\ header_written' = h /\ drop_until_keyframe' = o.drop /\ msg' = o.msg
  BY DEF Dispatched
<1>6. faults' \in 0 .. MaxFaults /\ (o.ret = OK \/ Fault(o.ret))
  <2>1. o.ret \in {OK} \cup Failures
    BY <1>3 DEF Outcome
  <2>2. faults' = IF o.ret = OK \/ fifo.outage THEN faults ELSE faults + 1
    BY DEF Dispatched, Failed
  <2>3. o.ret # OK => (fifo.outage \/ faults < MaxFaults) /\ Fault(o.ret)
    BY <2>1 DEF Failures, Fault
  <2> QED BY <1>1, <2>2, <2>3, FaultsAssumption
<1>7. h \in BOOLEAN
  BY <1>1
<1> HIDE DEF t, h
<1> QED BY <1>3, <1>4, <1>5, <1>6, <1>7 DEF Outcome

WriterState == OutTypes /\ WriterTypes /\ WriterFlow /\ OutputFiles

LEMMA Recoverable ==
  /\ \A e : is_recoverable(e) => fifo.attempt_recovery
  /\ fifo.attempt_recovery => is_recoverable(OK)
BY CodesAssumption DEF is_recoverable, Errors

\* A writer that gives up had an error to give up for.
LEMMA GivingUp ==
  ASSUME Types, GiveUp
  PROVE  /\ Fault(ret) /\ ret' = ret
         /\ \/ ret \in Errors /\ wpc' = "fail"
            \/ fifo.drop_pkts_on_overflow /\ wpc' = "check"
<1>1. wpc = "recover" /\ ~is_recoverable(ret) /\ ret' = ret
  BY DEF GiveUp
<1>2. Fault(ret) \/ (ret = OK /\ recovery_nr > 0)
  BY <1>1 DEF Types, WriterFlow
<1>3. ~(ret = OK /\ recovery_nr > 0)
  BY <1>1, Recoverable DEF Types, WriterFlow
<1>4. ret # EAGAIN => ret \in Errors
  BY <1>2, <1>3, FaultsAssumption DEF Fault
<1> QED BY <1>1, <1>2, <1>3, <1>4 DEF GiveUp

LEMMA FaultsDoNotEnd ==
  ASSUME EOF \notin Faults, NEW e, Fault(e)
  PROVE  e # EOF
<1>1. EAGAIN # EOF
  BY CodesAssumption DEF Errors
<1> QED BY <1>1 DEF Fault

LEMMA DispatchTypes ==
  ASSUME Types, OutputFiles, Dispatch
  PROVE  WriterState'
<1> USE DEF Types, WriterTypes
<1>1. PICK o \in fifo_thread_dispatch_message(msg, drop_until_keyframe) :
        /\ Dispatched(o) /\ ret' = o.ret
        /\ wpc' = IF o.ret = OK THEN "check" ELSE "recover"
  BY DEF Dispatch
<1>2. wpc = "dispatch" /\ UNCHANGED <<fifo, outQueue, overflow_flag, write_trailer_ret, recovery_nr>>
  BY DEF Dispatch
<1>3. /\ DispatchEffect(msg, drop_until_keyframe, o.ret, output')
      /\ header_written' \in BOOLEAN /\ (header_written' <=> IsOpen(output'))
      /\ msg' \in Given /\ msg'.pkt = msg.pkt
      /\ drop_until_keyframe' \in BOOLEAN
      /\ faults' \in 0 .. MaxFaults
      /\ (o.ret = OK \/ Fault(o.ret))
  BY <1>1, <1>2, Dispatches
<1>4. output' \in Seq(OutEvents) /\ Whole(output')
  BY <1>3 DEF DispatchEffect, Continues
<1>5. OutTypes'
  BY <1>2 DEF OutTypes, outQueue
<1>6. WriterTypes'
  BY <1>1, <1>2, <1>3, <1>4, FaultsAssumption DEF Fault
<1>7. WriterFlow'
  BY <1>1, <1>2, <1>3 DEF WriterFlow, Fault
<1>8. OutputFiles'
  BY <1>1, <1>3, <1>4 DEF OutputFiles
<1> QED BY <1>5, <1>6, <1>7, <1>8 DEF WriterState

LEMMA AttemptTypes ==
  ASSUME Types, OutputFiles, Attempt
  PROVE  WriterState'
<1> USE DEF Types, WriterTypes
<1> DEFINE drop == \/ drop_until_keyframe
                   \/ fifo.restart_with_keyframe /\ fifo.drop_pkts_on_overflow
<1>1. PICK o \in fifo_thread_dispatch_message(msg, drop) :
        /\ Dispatched(o)
        /\ recovery_nr' = IF o.ret = OK THEN 0 ELSE recovery_nr + 1
        /\ \/ /\ o.ret = OK
              /\ wpc' = "check" /\ UNCHANGED ret
           \/ /\ o.ret # OK /\ AttemptResult(o.ret, recovery_nr') # EAGAIN
              /\ wpc' = "fail" /\ ret' = o.ret
           \/ /\ o.ret # OK /\ AttemptResult(o.ret, recovery_nr') = EAGAIN
              /\ wpc' = IF fifo.drop_pkts_on_overflow THEN "check" ELSE "recover"
              /\ UNCHANGED ret
  BY DEF Attempt
<1>2. /\ wpc = "recover" /\ is_recoverable(ret)
      /\ UNCHANGED <<fifo, outQueue, overflow_flag, write_trailer_ret>>
  BY DEF Attempt, Recovering
<1>a. drop \in BOOLEAN
  BY OptionFields DEF OutTypes
<1> HIDE DEF drop
<1>3. /\ DispatchEffect(msg, drop, o.ret, output')
      /\ header_written' \in BOOLEAN /\ (header_written' <=> IsOpen(output'))
      /\ msg' \in Given /\ msg'.pkt = msg.pkt
      /\ drop_until_keyframe' \in BOOLEAN
      /\ faults' \in 0 .. MaxFaults
      /\ (o.ret = OK \/ Fault(o.ret))
  BY <1>1, <1>2, <1>a, Dispatches
<1>4. output' \in Seq(OutEvents) /\ Whole(output')
  BY <1>3 DEF DispatchEffect, Continues
<1>5. OutTypes'
  BY <1>2 DEF OutTypes, outQueue
<1>b. /\ wpc' \in {"check", "fail", "recover"} /\ ret' \in {ret, o.ret}
      /\ wpc' = "fail" => ret' = o.ret /\ o.ret # OK /\ o.ret # EAGAIN
      /\ wpc' = "recover" => ret' = ret /\ o.ret # OK
      /\ o.ret # OK /\ o.ret # EAGAIN /\ wpc' # "fail" => ~Exhausted(recovery_nr')
  BY <1>1 DEF AttemptResult
<1>c. recovery_nr' \in Nat
  BY <1>1
<1>6. WriterTypes'
  BY <1>b, <1>c, <1>2, <1>3, <1>4, FaultsAssumption DEF Fault
<1>7. WriterFlow'
  <2>1. fifo'.attempt_recovery
    BY <1>2, Recoverable
  <2>2. wpc' = "recover" => Fault(ret)' \/ (ret' = OK /\ recovery_nr' > 0)
    BY <1>b, <1>1, <1>2 DEF WriterFlow, Fault
  <2>4. wpc' = "fail" => ret' \in Errors
    BY <1>b, <1>3, FaultsAssumption DEF Fault
  <2>3. ~fifo'.again /\ fifo'.max_recovery_attempts # 0 /\ wpc' # "fail"
          => recovery_nr' < fifo'.max_recovery_attempts
    <3>1. fifo'.max_recovery_attempts = fifo.max_recovery_attempts /\ fifo.max_recovery_attempts \in Nat
      BY <1>2, OptionFields DEF OutTypes
    <3>2. CASE o.ret = OK
      <4>1. recovery_nr' = 0
        BY <3>2, <1>1
      <4> QED BY <4>1, <3>1
    <3>3. CASE o.ret # OK
      <4>1. PICK m \in Nat : m = recovery_nr'
        BY <1>c
      <4>2. ~fifo'.again /\ wpc' # "fail" => ~Exhausted(m)
        <5>1. ~fifo'.again => o.ret \in Faults
          BY <1>2, <1>3, <3>3 DEF Fault
        <5>2. o.ret \in Faults => o.ret # EAGAIN
          BY FaultsAssumption, CodesAssumption
        <5> QED BY <3>3, <4>1, <5>1, <5>2, <1>b
      <4> QED BY <4>1, <4>2, <3>1 DEF Exhausted
    <3> QED BY <3>2, <3>3
  <2> QED BY <2>1, <2>2, <2>3, <2>4, <1>b DEF WriterFlow
<1>8. OutputFiles'
  BY <1>b, <1>3, <1>4 DEF OutputFiles
<1> QED BY <1>5, <1>6, <1>7, <1>8 DEF WriterState

\* The steps that dispatch nothing.
LEMMA WriterStepTypes ==
  ASSUME Types, OutputFiles,
         \/ GiveUp \/ CloseFailed \/ AttemptEarly \/ CheckOverflow \/ Receive \/ Fail \/ Finish
  PROVE  WriterState'
<1> USE DEF Types
<1>1. CASE GiveUp
  <2>1. /\ ret' = ret
        /\ wpc' = "check" \/ (wpc' = "fail" /\ ret \in Errors)
    BY <1>1, GivingUp
  <2>2. OutTypes' /\ WriterTypes'
    BY <1>1 DEF GiveUp, OutTypes, WriterTypes, outQueue, muxer
  <2>3. WriterFlow' /\ OutputFiles'
    BY <1>1, <2>1 DEF GiveUp, WriterFlow, Fault, OutputFiles, muxer
  <2> QED BY <2>2, <2>3 DEF WriterState
<1>2. CASE CloseFailed
  <2>1. wpc = "recover" /\ fifo_thread_write_trailer /\ header_written' = FALSE
        /\ UNCHANGED <<fifo, outQueue, overflow_flag, writer, drop_until_keyframe>>
    BY <1>2 DEF CloseFailed, Recovering
  <2>2. /\ Continues(output, output', msg) /\ ~IsOpen(output')
        /\ write_trailer_ret' \in Errors \cup {OK, EAGAIN} /\ faults' \in 0 .. MaxFaults
    BY <2>1, TrailerWrites DEF OutputFiles
  <2>3. output' \in Seq(OutEvents) /\ Whole(output')
    BY <2>2 DEF Continues
  <2>4. OutTypes'
    BY <2>1, <2>2 DEF OutTypes, outQueue
  <2>5. WriterTypes'
    BY <2>1, <2>2, <2>3 DEF WriterTypes, writer
  <2>6. WriterFlow' /\ OutputFiles'
    BY <2>1, <2>2, <2>3 DEF WriterFlow, Fault, OutputFiles, writer
  <2> QED BY <2>4, <2>5, <2>6 DEF WriterState
<1>3. CASE AttemptEarly
  <2>1. OutTypes' /\ WriterTypes'
    BY <1>3 DEF AttemptEarly, OutTypes, WriterTypes, outQueue, muxer
  <2>2. WriterFlow' /\ OutputFiles'
    BY <1>3 DEF AttemptEarly, Recovering, WriterFlow, OutputFiles, muxer
  <2> QED BY <2>1, <2>2 DEF WriterState
<1>4. CASE CheckOverflow
  <2>1. queue' \in {queue, <<>>} /\ UNCHANGED <<out_err_send, out_err_recv, out_ret>>
    BY <1>4 DEF CheckOverflow, Out!Flush, outQueue
  <2>2. queue' \in Seq(Messages) /\ Len(queue') <= queue_size
    BY <2>1, QueueTypes, OptionsAssumption DEF OutTypes
  <2>3. drop_until_keyframe' \in BOOLEAN
    BY <1>4, OptionFields DEF CheckOverflow, OutTypes, WriterTypes
  <2>4. OutTypes' /\ WriterTypes'
    BY <1>4, <2>1, <2>2, <2>3 DEF CheckOverflow, OutTypes, WriterTypes
  <2>5. WriterFlow' /\ OutputFiles'
    BY <1>4 DEF CheckOverflow, WriterFlow, OutputFiles
  <2> QED BY <2>4, <2>5 DEF WriterState
<1>5. CASE Receive
  <2>a. wpc = "recv" /\ UNCHANGED <<fifo, overflow_flag, write_trailer_ret, recovery_nr, muxer>>
    BY <1>5 DEF Receive
  <2>1. CASE /\ Out!Get("writer")
             /\ msg' = Head(queue) /\ ret' = OK
             /\ wpc' = IF recovery_nr = 0 THEN "dispatch" ELSE "recover"
    <3>1. /\ queue' \in Seq(Messages) /\ Len(queue') <= queue_size
          /\ Head(queue) \in Messages
      BY <2>1, QueueTypes, OptionsAssumption DEF OutTypes, Out!Get
    <3>2. out_ret' = [out_ret EXCEPT !["writer"] = Head(queue)]
      BY <2>1 DEF Out!Get, Out!Return
    <3>3. UNCHANGED <<out_err_send, out_err_recv>>
      BY <2>1 DEF Out!Get
    <3>4. OutTypes'
      BY <2>a, <3>1, <3>2, <3>3 DEF OutTypes, FifoUsers
    <3>5. msg' \in Given /\ msg'.scaled = 0
      BY <2>1, <3>1, MessagesAreGiven
    <3>6. WriterTypes'
      BY <2>a, <2>1, <3>5 DEF WriterTypes, muxer
    <3>7. WriterFlow' /\ OutputFiles'
      BY <2>a, <2>1, <3>5 DEF WriterTypes, WriterFlow, OutputFiles, muxer
    <3> QED BY <3>4, <3>6, <3>7 DEF WriterState
  <2>2. CASE /\ Out!GetError("writer")
             /\ ret' = out_err_recv
             /\ wpc' = "fail" /\ UNCHANGED msg
    <3>1. /\ out_ret' = [out_ret EXCEPT !["writer"] = out_err_recv]
          /\ UNCHANGED <<queue, out_err_send, out_err_recv>> /\ out_err_recv # NoError
      BY <2>2 DEF Out!GetError, Out!Return
    <3>2. out_err_recv = EOF /\ EOF \in Errors /\ EOF # OK
      BY <3>1, CodesAssumption DEF OutTypes, Errors
    <3>3. OutTypes'
      BY <2>a, <3>1, <3>2 DEF OutTypes, FifoUsers
    <3>4. WriterTypes' /\ WriterFlow' /\ OutputFiles'
      BY <2>a, <2>2, <3>2 DEF WriterTypes, WriterFlow, OutputFiles, muxer
    <3> QED BY <3>3, <3>4 DEF WriterState
  <2> QED BY <2>1, <2>2, <1>5 DEF Receive
<1>6. CASE Fail
  <2>1. out_err_send' \in Errors /\ UNCHANGED <<queue, out_err_recv, out_ret>>
    BY <1>6 DEF Fail, Out!SetErrSend, WriterFlow, WriterTypes
  <2>2. OutTypes' /\ WriterTypes'
    BY <1>6, <2>1 DEF Fail, OutTypes, WriterTypes, muxer
  <2>3. WriterFlow' /\ OutputFiles'
    BY <1>6 DEF Fail, WriterFlow, OutputFiles, muxer
  <2> QED BY <2>2, <2>3 DEF WriterState
<1>7. CASE Finish
  <2>1. wpc = "end" /\ wpc' = "dead" /\ fifo_thread_write_trailer
        /\ UNCHANGED <<fifo, outQueue, overflow_flag, msg, ret, recovery_nr,
                       drop_until_keyframe, header_written>>
    BY <1>7 DEF Finish
  <2>2. /\ Continues(output, output', msg) /\ ~IsOpen(output')
        /\ write_trailer_ret' \in Errors \cup {OK, EAGAIN} /\ faults' \in 0 .. MaxFaults
    BY <2>1, TrailerWrites DEF OutputFiles
  <2>3. output' \in Seq(OutEvents) /\ Whole(output')
    BY <2>2 DEF Continues
  <2>4. OutTypes'
    BY <2>1, <2>2 DEF OutTypes, outQueue
  <2>5. WriterTypes'
    BY <2>1, <2>2, <2>3 DEF WriterTypes
  <2>6. WriterFlow' /\ OutputFiles'
    BY <2>1, <2>2, <2>3 DEF WriterFlow, OutputFiles
  <2> QED BY <2>4, <2>5, <2>6 DEF WriterState
<1> QED BY <1>1, <1>2, <1>3, <1>4, <1>5, <1>6, <1>7

\* The calls of the main thread.
LEMMA FifoCallTypes ==
  ASSUME Types, OutputFiles,
         \/ fifo_write_header \/ WriteSent(outgoing) \/ WriteFails(outgoing)
         \/ WriteOverflows \/ SetOverflow \/ EndOfPackets \/ JoinWriter
  PROVE  WriterState'
<1> USE DEF Types
<1>a. outgoing \in Messages
  BY DEF MainTypes
<1>b. ASSUME UNCHANGED <<fifo, writer, muxer>>
      PROVE  WriterTypes' /\ WriterFlow' /\ OutputFiles'
  BY <1>b DEF WriterTypes, WriterFlow, Fault, OutputFiles, writer, muxer
<1>1. CASE fifo_write_header
  <2>1. OutTypes' /\ WriterTypes'
    BY <1>1 DEF fifo_write_header, OutTypes, WriterTypes, outQueue, muxer
  <2>2. WriterFlow' /\ OutputFiles'
    BY <1>1 DEF fifo_write_header, WriterFlow, OutputFiles, muxer
  <2> QED BY <2>1, <2>2 DEF WriterState
<1>2. CASE WriteSent(outgoing)
  <2>1. /\ out_ret' = [out_ret EXCEPT !["main"] = OK] /\ UNCHANGED <<out_err_send, out_err_recv>>
        /\ queue' = Append(queue, outgoing) /\ Len(queue) < queue_size
    BY <1>2 DEF WriteSent, Out!Put, Out!Return
  <2>2. queue' \in Seq(Messages) /\ Len(queue') <= queue_size
    BY <2>1, <1>a, QueueTypes, OptionsAssumption DEF OutTypes
  <2>3. OutTypes'
    BY <1>2, <2>1, <2>2 DEF WriteSent, OutTypes, FifoUsers
  <2> QED BY <1>2, <1>b, <2>3 DEF WriteSent, WriterState
<1>3. CASE WriteFails(outgoing)
  <2>1. /\ out_ret' = [out_ret EXCEPT !["main"] = out_err_send] /\ out_err_send \in Errors
        /\ UNCHANGED <<queue, out_err_send, out_err_recv>>
    BY <1>3 DEF WriteFails, Out!PutError, Out!Return, OutTypes
  <2>2. OutTypes'
    BY <1>3, <2>1 DEF WriteFails, OutTypes, FifoUsers
  <2> QED BY <1>3, <1>b, <2>2 DEF WriteFails, WriterState
<1>4. CASE WriteOverflows
  <2>1. /\ out_ret' = [out_ret EXCEPT !["main"] = EAGAIN]
        /\ UNCHANGED <<queue, out_err_send, out_err_recv>>
    BY <1>4 DEF WriteOverflows, Out!TryAgain, Out!Return
  <2>2. OutTypes'
    BY <1>4, <2>1 DEF WriteOverflows, OutTypes, FifoUsers
  <2> QED BY <1>4, <1>b, <2>2 DEF WriteOverflows, WriterState
<1>5. CASE SetOverflow
  <2>1. OutTypes'
    BY <1>5 DEF SetOverflow, OutTypes, outQueue
  <2> QED BY <1>5, <1>b, <2>1 DEF SetOverflow, WriterState
<1>6. CASE EndOfPackets
  <2>1. OutTypes'
    BY <1>6 DEF EndOfPackets, OutTypes, Out!SetErrRecv
  <2> QED BY <1>6, <1>b, <2>1 DEF EndOfPackets, WriterState
<1>7. CASE JoinWriter
  <2>1. queue' = <<>> /\ UNCHANGED <<out_err_send, out_err_recv, out_ret>>
    BY <1>7 DEF JoinWriter, Out!Flush
  <2>2. queue' \in Seq(Messages) /\ Len(queue') <= queue_size
    BY <2>1, QueueTypes, OptionsAssumption DEF OutTypes
  <2>3. OutTypes'
    BY <1>7, <2>1, <2>2 DEF JoinWriter, OutTypes
  <2> QED BY <1>7, <1>b, <2>3 DEF JoinWriter, WriterState
<1> QED BY <1>1, <1>2, <1>3, <1>4, <1>5, <1>6, <1>7

-----------------------------------------------------------------------------
(* Type correctness.                                                       *)

TypeInv == Types /\ OutputFiles /\ Waited

LEMMA InitTypes ==
  ASSUME Init
  PROVE  TypeInv
<1> USE DEF Init
<1>1. InTypes /\ InFlow
  <2>1. in_ret \in [InputUsers -> Pkts \cup Errors \cup {OK, EAGAIN}]
    <3> HIDE DEF Pkts
    <3> QED BY DEF InputInit, In!Init
  <2>2. inq = <<>> /\ inq \in Seq(Pkts) /\ Len(inq) = 0
    <3>1. inq = <<>>
      BY DEF InputInit, In!Init
    <3> QED BY <3>1, EmptySeq
  <2>3. Len(inq) <= thread_queue_size /\ 0 \in 0 .. MaxPkts
    BY <2>2, QueueAssumption, PktsAreNumbers
  <2>4. /\ in_err_send = NoError /\ in_err_recv = NoError
        /\ non_blocking \in BOOLEAN /\ ipc = "none" /\ flags = FALSE /\ nread = 0
    BY DEF InputInit, In!Init
  <2> HIDE DEF Init, Pkts
  <2> QED BY <2>1, <2>2, <2>3, <2>4 DEF InTypes, InFlow
<1>2. OutTypes
  <2>1. queue \in Seq(Messages) /\ Len(queue) = 0
    <3>1. queue = <<>>
      BY DEF FifoInit, Out!Init
    <3> QED BY <3>1, EmptySeq
  <2>2. fifo \in Options /\ Len(queue) <= queue_size
    BY <2>1, OptionsAssumption DEF FifoInit
  <2>3. /\ out_err_send = NoError /\ out_err_recv = NoError
        /\ out_ret = [t \in FifoUsers |-> OK]
        /\ overflow_flag = FALSE /\ write_trailer_ret = OK
    BY DEF FifoInit, Out!Init
  <2>4. out_ret \in [FifoUsers -> Messages \cup Errors \cup {OK, EAGAIN}]
    BY <2>3
  <2> HIDE DEF Init
  <2> QED BY <2>1, <2>2, <2>3, <2>4 DEF OutTypes
<1>3. WriterTypes
  <2>1. output \in Seq(OutEvents)
    BY EmptySeq DEF FifoInit
  <2>2. MaxFaults \in Nat
    BY FaultsAssumption
  <2>3. /\ wpc = "none" /\ msg = Header /\ ret = OK /\ recovery_nr = 0
        /\ drop_until_keyframe = FALSE /\ header_written = FALSE /\ faults = 0
    BY DEF FifoInit
  <2> HIDE DEF Init
  <2>4. faults \in 0 .. MaxFaults /\ msg \in Given
    BY <2>2, <2>3 DEF Given
  <2> QED BY <2>1, <2>3, <2>4 DEF WriterTypes
<1>4. WriterFlow
  <2>1. fifo.max_recovery_attempts \in Nat
    BY OptionsAssumption, OptionFields DEF FifoInit
  <2> QED BY <2>1 DEF WriterFlow, FifoInit, Header, Message
<1>5. MainTypes
  BY DEF MainTypes, Messages
<1>6. OutputFiles /\ Waited
  BY EmptyNumbers DEF OutputFiles, Waited, FifoInit
<1> QED BY <1>1, <1>2, <1>3, <1>4, <1>5, <1>6 DEF TypeInv, Types

\* Where only the other components move.
LEMMA InputStays ==
  ASSUME Types, UNCHANGED inputVars
  PROVE  InTypes' /\ InFlow'
BY DEF Types, InTypes, InFlow, inputVars, inQueue, inThread

LEMMA FifoStays ==
  ASSUME Types, OutputFiles, UNCHANGED fifoVars
  PROVE  WriterState'
<1> USE DEF Types, fifoVars, outQueue, writer, muxer
<1>1. OutTypes' /\ WriterTypes'
  BY DEF OutTypes, WriterTypes
<1>2. WriterFlow' /\ OutputFiles'
  BY DEF WriterFlow, Fault, OutputFiles
<1> QED BY <1>1, <1>2 DEF WriterState

LEMMA MainTypesStep ==
  ASSUME Types, Main \/ Quit \/ UNCHANGED main
  PROVE  MainTypes'
<1> USE DEF Types, MainTypes
<1>1. CASE Open \/ Start \/ Quit
  BY <1>1 DEF Open, Start, Quit
<1>2. CASE GetPacket
  <2>1. ASSUME NEW r \in Pkts PROVE Packet(r) \in Messages
    BY <2>1 DEF Messages
  <2>2. Flush \in Messages
    BY DEF Messages
  <2> HIDE DEF Pkts
  <2> QED BY <1>2, <2>1, <2>2 DEF GetPacket, main
<1>3. CASE Write \/ WriteError \/ WriteDropped \/ Overflow
  BY <1>3 DEF Write, WriteError, WriteDropped, Overflow, AfterWrite
<1>4. CASE FreeInput \/ Drain \/ Joined \/ WriteTrailer \/ Closes
  BY <1>4 DEF FreeInput, Drain, Joined, WriteTrailer, Closes
<1>5. CASE UNCHANGED main
  BY <1>5 DEF main
<1> QED BY <1>1, <1>2, <1>3, <1>4, <1>5 DEF Main

\* A step of the main thread is a call on the input or on the muxer.
LEMMA MainCalls ==
  ASSUME Main \/ Quit
  PROVE  /\ \/ UNCHANGED inputVars
            \/ init_input_thread \/ get_input_packet_mt \/ StopInput
            \/ DrainInput \/ DrainEnds \/ JoinInput
         /\ \/ UNCHANGED fifoVars
            \/ fifo_write_header \/ WriteSent(outgoing) \/ WriteFails(outgoing)
            \/ WriteOverflows \/ SetOverflow \/ EndOfPackets \/ JoinWriter
<1>1. CASE Open \/ Start \/ Quit \/ GetPacket
  BY <1>1 DEF Open, Start, Quit, GetPacket
<1>2. CASE Write \/ WriteError \/ WriteDropped \/ Overflow
  BY <1>2 DEF Write, WriteError, WriteDropped, Overflow
<1>3. CASE FreeInput \/ Drain \/ Joined \/ WriteTrailer \/ Closes
  BY <1>3 DEF FreeInput, Drain, Joined, WriteTrailer, Closes
<1> QED BY <1>1, <1>2, <1>3 DEF Main

LEMMA WaitedStep ==
  ASSUME Waited, [Next]_vars
  PROVE  Waited'
<1>1. CASE Open \/ Start \/ Quit \/ GetPacket
  BY <1>1 DEF Open, Start, Quit, GetPacket, Waited, main
<1>2. CASE Write \/ WriteError \/ WriteDropped \/ Overflow
  BY <1>2 DEF Write, WriteError, WriteDropped, Overflow, AfterWrite, Waited
<1>3. CASE FreeInput \/ Drain \/ Joined \/ WriteTrailer
  BY <1>3 DEF FreeInput, Drain, Joined, WriteTrailer, Waited
<1>4. CASE Closes
  BY <1>4 DEF Closes, JoinWriter, writer, Waited
<1>5. CASE Input \/ UNCHANGED vars
  BY <1>5 DEF Input, vars, fifoVars, writer, main, Waited
<1>6. CASE Writer
  <2>1. pc' = pc
    BY <1>6 DEF Writer, main
  <2>2. wpc # "dead"
    BY <1>6 DEF Writer, fifo_consumer_thread, Dispatch, GiveUp, CloseFailed, AttemptEarly,
                Attempt, CheckOverflow, Receive, Fail, Finish, Recovering
  <2> QED BY <2>1, <2>2 DEF Waited
<1> QED BY <1>1, <1>2, <1>3, <1>4, <1>5, <1>6 DEF Next, Main

LEMMA TypesStep ==
  ASSUME TypeInv, [Next]_vars
  PROVE  TypeInv'
<1> USE DEF TypeInv
<1>1. Waited'
  BY WaitedStep
<1>2. CASE Main \/ Quit
  <2>1. InTypes' /\ InFlow'
    BY <1>2, MainCalls, InputStays, InputCallTypes
  <2>2. WriterState'
    BY <1>2, MainCalls, FifoStays, FifoCallTypes
  <2> QED BY <1>1, <1>2, <2>1, <2>2, MainTypesStep DEF Types, WriterState
<1>3. CASE Input
  <2>1. input_thread /\ UNCHANGED fifoVars /\ UNCHANGED main
    BY <1>3 DEF Input
  <2> QED BY <1>1, <2>1, InputTypes, FifoStays, MainTypesStep DEF Types, WriterState
<1>4. CASE Writer
  <2>1. fifo_consumer_thread /\ UNCHANGED inputVars /\ UNCHANGED main
    BY <1>4 DEF Writer
  <2>2. WriterState'
    BY <2>1, DispatchTypes, AttemptTypes, WriterStepTypes DEF fifo_consumer_thread
  <2> QED BY <1>1, <2>1, <2>2, InputStays, MainTypesStep DEF Types, WriterState
<1>5. CASE UNCHANGED vars
  <2>1. UNCHANGED inputVars /\ UNCHANGED fifoVars /\ UNCHANGED main
    BY <1>5 DEF vars
  <2> QED BY <1>1, <2>1, InputStays, FifoStays, MainTypesStep DEF Types, WriterState
<1> QED BY <1>2, <1>3, <1>4, <1>5 DEF Next

LEMMA TypeInvariance == Spec => []TypeInv
<1>1. Init => TypeInv
  BY InitTypes
<1>2. TypeInv /\ [Next]_vars => TypeInv'
  BY TypesStep
<1> QED BY <1>1, <1>2, PTL DEF Spec

LEMMA EventTypes ==
  ASSUME NEW s \in Seq(OutEvents)
  PROVE  s \in Seq(Events)
<1>1. OutEvents \subseteq Events
  BY PktsAreNumbers DEF OutEvents, Events
<1> QED BY <1>1, SeqMonotonic

\* The types of the input's queue and thread, of the muxer's queue and writer, and
\* of the main thread (ffmpeg.c:4093-4230, fifo.c:413-475), whatever the underlying
\* muxer returns; and, for every value of the option, the bound on the recovery
\* attempts in a row, which fifo_thread_process_recovery_failure keeps (fifo.c:301)
\* if no attempt fails with AVERROR(EAGAIN), which fifo.c:400 takes for its answer.
THEOREM TypeCorrect == Spec => []TypeOK
<1>1. TypeInv => TypeOK
  <2> SUFFICES ASSUME TypeInv PROVE TypeOK
    OBVIOUS
  <2> USE DEF TypeInv, Types
  <2>1. InputTypeOK
    BY DEF InputTypeOK, InTypes
  <2>2. FifoTypeOK
    <3>1. output \in Seq(Events)
      BY EventTypes DEF WriterTypes
    <3>2. EOF \in Errors
      BY DEF Errors
    <3> QED BY <3>1, <3>2 DEF FifoTypeOK, OutTypes, WriterTypes, WriterFlow
  <2> QED BY <2>1, <2>2 DEF TypeOK, MainTypes
<1> QED BY <1>1, TypeInvariance, PTL

\* The part of OutputFaithful on the files: each has its header, its packets and its
\* trailer, however the output fails and is restarted (fifo.c:212-226, 327-333), and
\* the last has its trailer once fifo_write_trailer has joined the thread
\* (fifo.c:634).  It holds for every error, the end of file too.
THEOREM FilesAreWhole == Spec => []Files
<1>1. TypeInv => Files
  BY DEF TypeInv, OutputFiles, Waited, Files, Whole, IsOpen
<1> QED BY <1>1, TypeInvariance, PTL

-----------------------------------------------------------------------------
(* The input's queue has no gap.                                           *)

Consecutive(s, t) == \A k \in 1 .. Len(s) : s[k] = t + k

LEMMA ConsecutiveAppend ==
  ASSUME NEW s \in Seq(Pkts), NEW t \in Int, Consecutive(s, t), NEW n \in Pkts,
         n = t + Len(s) + 1
  PROVE  Consecutive(Append(s, n), t) /\ Len(Append(s, n)) = Len(s) + 1
<1>1. /\ Len(Append(s, n)) = Len(s) + 1 /\ Len(s) \in Nat
      /\ \A k \in 1 .. Len(s) : Append(s, n)[k] = s[k]
      /\ Append(s, n)[Len(s) + 1] = n
  BY AppendProperties, LenProperties
<1> DEFINE u == Append(s, n)
<1> HIDE DEF u
<1>2. \A k \in 1 .. Len(u) : u[k] = t + k
  BY <1>1 DEF Consecutive, u
<1> QED BY <1>1, <1>2 DEF Consecutive, u

LEMMA ConsecutiveTail ==
  ASSUME NEW s \in Seq(Pkts), NEW t \in Int, Consecutive(s, t), s # <<>>
  PROVE  /\ Head(s) = t + 1 /\ Head(s) \in Pkts
         /\ Consecutive(Tail(s), t + 1) /\ Len(Tail(s)) = Len(s) - 1
<1>1. /\ Len(s) \in Nat \ {0} /\ Head(s) \in Pkts /\ Len(Tail(s)) = Len(s) - 1
      /\ \A k \in 1 .. Len(Tail(s)) : Tail(s)[k] = s[k + 1]
  BY HeadTailProperties, EmptySeq
<1>2. Head(s) = s[1]
  OBVIOUS
<1> DEFINE u == Tail(s)
<1> HIDE DEF u
<1>3. \A k \in 1 .. Len(u) : u[k] = t + 1 + k
  BY <1>1 DEF Consecutive, u
<1> QED BY <1>1, <1>2, <1>3 DEF Consecutive, u

\* InputOrder, without the assumption that packets are copied.
InOrder ==
  /\ in_err_send = NoError /\ ipc # "report"
  /\ in_err_recv # NoError => ipc = "dead"
  /\ in_err_recv = EOF => nread = MaxPkts
  /\ Consecutive(inq, Taken)

MainOrder ==
  /\ pc = "write" /\ outgoing # Flush => outgoing.pkt = Taken
  /\ complete => pc \in {"write", "overflow"} /\ outgoing = Flush

LEMMA InputOrderParts == InputOrder <=> (Copying => InOrder /\ MainOrder)
BY DEF InputOrder, InOrder, MainOrder, Consecutive

LEMMA TakenNumber ==
  ASSUME Types
  PROVE  Sent \in Int /\ Len(inq) \in Nat /\ Taken \in Int
<1>1. nread \in Int /\ Len(inq) \in Nat
  BY LenProperties DEF Types, InTypes
<1> QED BY <1>1 DEF Sent, Taken

\* The input thread sends one packet after the other.
LEMMA InputThreadOrder ==
  ASSUME Types, InOrder, input_thread
  PROVE  InOrder' /\ Taken' = Taken
<1> USE DEF InOrder
<1>1. CASE ReadPacket
  <2>1. Sent' = Sent /\ inq' = inq
    BY <1>1 DEF ReadPacket, Sent, inQueue, Types, InTypes
  <2>2. Taken' = Taken
    BY <2>1 DEF Taken
  <2> QED BY <1>1, <2>1, <2>2, CodesAssumption DEF ReadPacket, inQueue, Errors
<1>2. CASE ReadFails
  <2>1. Sent' = Sent /\ inq' = inq /\ in_err_send' = in_err_send
    BY <1>2 DEF ReadFails, Sent, In!SetErrRecv
  <2>2. Taken' = Taken
    BY <2>1 DEF Taken
  <2>3. in_err_recv' = EOF => nread' = MaxPkts
    BY <1>2 DEF ReadFails, In!SetErrRecv
  <2> QED BY <1>2, <2>1, <2>2, <2>3 DEF ReadFails
<1>3. CASE SendPacket
  <2>1. /\ ipc = "send" /\ inq' = Append(inq, nread) /\ ipc' = "read" /\ nread' = nread
        /\ UNCHANGED <<in_err_send, in_err_recv>>
    BY <1>3 DEF SendPacket, In!Put
  <2>2. nread \in Pkts /\ inq \in Seq(Pkts) /\ nread = Taken + Len(inq) + 1
    BY <2>1, TakenNumber, PktsAreNumbers DEF Types, InTypes, InFlow, Taken, Sent
  <2>3. Consecutive(inq', Taken) /\ Len(inq') = Len(inq) + 1
    BY <2>1, <2>2, ConsecutiveAppend, TakenNumber
  <2>4. Taken' = Taken
    BY <2>1, <2>3, TakenNumber DEF Taken, Sent, Types, InTypes
  <2> QED BY <2>1, <2>3, <2>4
<1>4. CASE SendWouldBlock
  <2>1. UNCHANGED <<inq, in_err_send, in_err_recv, ipc, nread>>
    BY <1>4 DEF SendWouldBlock, In!TryAgain
  <2>2. Taken' = Taken
    BY <2>1 DEF Taken, Sent
  <2> QED BY <2>1, <2>2
<1>5. CASE SendFails \/ ReportFailure
  BY <1>5 DEF SendFails, In!PutError, ReportFailure
<1> QED BY <1>1, <1>2, <1>3, <1>4, <1>5 DEF input_thread

\* The main thread takes one packet after the other.
LEMMA GetPacketOrder ==
  ASSUME Types, InOrder, MainOrder, GetPacket
  PROVE  /\ InOrder' /\ (Copying' => MainOrder')
         /\ Passed' = Taken
         /\ complete' => Taken = MaxPkts
         /\ pc' # "get" \/ complete' = complete
<1>1. pc = "get" /\ get_input_packet_mt /\ ~complete
  BY DEF GetPacket, MainOrder
<1>2. UNCHANGED <<ipc, nread, flags>>
  BY <1>1 DEF get_input_packet_mt, inThread
<1>3. Taken \in Int /\ Len(inq) \in Nat
  BY TakenNumber
<1>a. /\ \A r \in Pkts : r \notin Errors /\ r # EAGAIN
      /\ \A r \in Errors : r \notin Pkts /\ r # EAGAIN
      /\ EAGAIN \notin Pkts
  <2> HIDE DEF Pkts
  <2> QED BY CodesAssumption
<1>4. CASE In!Get("main")
  <2>1. /\ inq # <<>> /\ inq' = Tail(inq) /\ UNCHANGED <<in_err_send, in_err_recv>>
        /\ in_ret' = [in_ret EXCEPT !["main"] = Head(inq)]
    BY <1>4 DEF In!Get, In!Return
  <2>2. /\ Head(inq) = Taken + 1 /\ Head(inq) \in Pkts
        /\ Consecutive(inq', Taken + 1) /\ Len(inq') = Len(inq) - 1
    BY <2>1, <1>3, ConsecutiveTail DEF Types, InTypes, InOrder
  <2>3. Taken' = Taken + 1
    BY <1>2, <1>3, <2>2, TakenNumber DEF Taken, Sent
  <2>4. in_ret'["main"] = Head(inq)
    BY <2>1 DEF Types, InTypes, InputUsers
  <2>5. outgoing' = Packet(Head(inq)) /\ pc' = "write" /\ complete' = complete
    BY <2>2, <2>4, <1>a DEF GetPacket
  <2>6. outgoing' # Flush /\ outgoing'.pkt = Taken'
    BY <2>2, <2>3, <2>5 DEF Flush, Packet, Message
  <2>7. Passed' = Taken
    BY <2>3, <2>5, <2>6, <1>3 DEF Passed
  <2>8. InOrder'
    BY <1>2, <2>1, <2>2, <2>3 DEF InOrder
  <2> QED BY <1>1, <2>5, <2>6, <2>7, <2>8 DEF MainOrder
<1>5. CASE In!GetError("main")
  <2>1. /\ inq = <<>> /\ UNCHANGED <<inq, in_err_send, in_err_recv>> /\ in_err_recv # NoError
        /\ in_ret' = [in_ret EXCEPT !["main"] = in_err_recv]
    BY <1>5 DEF In!GetError, In!Return
  <2>2. in_err_recv \in Errors /\ in_ret'["main"] = in_err_recv
    BY <2>1 DEF Types, InTypes, InputUsers
  <2>3. /\ complete' = (in_err_recv = EOF) /\ outgoing' = Flush /\ pc' \in {"write", "free"}
    BY <2>2, <1>a DEF GetPacket
  <2>4. Taken' = Taken /\ Passed' = Taken'
    BY <1>2, <2>1, <2>3 DEF Taken, Sent, Passed
  <2>5. InOrder'
    BY <1>2, <2>1, <2>4 DEF InOrder
  <2>6. in_err_recv = EOF => Taken = MaxPkts
    <3>1. in_err_recv = EOF => nread = MaxPkts /\ ipc = "dead"
      BY <2>1 DEF InOrder
    <3>2. Len(inq) = 0
      BY <2>1, EmptySeq
    <3> QED BY <3>1, <3>2, PktsAreNumbers DEF Taken, Sent
  <2> QED BY <2>3, <2>4, <2>5, <2>6 DEF MainOrder, Copying
<1>6. CASE In!TryAgain("main")
  <2>1. /\ UNCHANGED <<inq, in_err_send, in_err_recv>>
        /\ in_ret' = [in_ret EXCEPT !["main"] = EAGAIN]
    BY <1>6 DEF In!TryAgain, In!Return
  <2>2. in_ret'["main"] = EAGAIN
    BY <2>1 DEF Types, InTypes, InputUsers
  <2>3. UNCHANGED <<pc, outgoing, complete>>
    BY <2>2, <1>a DEF GetPacket, main
  <2>4. Taken' = Taken /\ Passed' = Taken'
    BY <1>1, <1>2, <2>1, <2>3 DEF Taken, Sent, Passed
  <2>5. InOrder'
    BY <1>2, <2>1, <2>4 DEF InOrder
  <2> QED BY <1>1, <2>3, <2>4, <2>5 DEF MainOrder
<1> QED BY <1>1, <1>4, <1>5, <1>6 DEF get_input_packet_mt

LEMMA InitInputOrder ==
  ASSUME Init
  PROVE  InputOrder
<1>1. /\ in_err_send = NoError /\ in_err_recv = NoError /\ inq = <<>> /\ ipc = "none"
      /\ pc = "header" /\ ~complete
  BY DEF Init, InputInit, In!Init
<1>2. NoError # EOF /\ Len(inq) = 0
  BY <1>1, CodesAssumption, EmptySeq DEF Errors
<1> QED BY <1>1, <1>2 DEF InputOrder

LEMMA OrderStays ==
  ASSUME UNCHANGED inputVars
  PROVE  Taken' = Taken /\ (InOrder => InOrder')
<1>1. UNCHANGED <<inq, in_err_send, in_err_recv, ipc, nread>>
  BY DEF inputVars, inQueue, inThread
<1>2. Taken' = Taken
  BY <1>1 DEF Taken, Sent
<1> QED BY <1>1, <1>2 DEF InOrder

LEMMA InputOrderStep ==
  ASSUME Types, InputOrder, [Next]_vars
  PROVE  InputOrder'
<1> SUFFICES ASSUME Copying' PROVE InOrder' /\ MainOrder'
  BY DEF InputOrder, InOrder, MainOrder, Consecutive
<1>1. CASE Open
  <2>1. Copying /\ UNCHANGED <<inputVars, outgoing, complete>> /\ pc' = "start" /\ pc = "header"
    BY <1>1 DEF Open, Copying
  <2> QED BY <2>1, OrderStays, InputOrderParts DEF MainOrder
<1>2. CASE Start
  <2>1. /\ Copying /\ UNCHANGED <<inQueue, nread, outgoing, complete>>
        /\ pc' = "get" /\ pc = "start" /\ ipc = "none" /\ ipc' = "read"
    BY <1>2 DEF Start, init_input_thread, Copying
  <2>2. UNCHANGED <<inq, in_err_send, in_err_recv>>
    BY <2>1 DEF inQueue
  <2>3. Taken' = Taken
    BY <2>1, <2>2 DEF Taken, Sent
  <2> QED BY <2>1, <2>2, <2>3, InputOrderParts DEF InOrder, MainOrder
<1>3. CASE GetPacket
  <2>1. Copying
    BY <1>3 DEF GetPacket, Copying
  <2> QED BY <1>3, <2>1, GetPacketOrder, InputOrderParts
<1>4. CASE Write \/ Overflow
  <2>1. /\ pc \in {"write", "overflow"} /\ pc' = AfterWrite
        /\ UNCHANGED <<inputVars, outgoing, complete>>
    BY <1>4 DEF Write, Overflow
  <2>2. outgoing # Flush /\ pc' = "get" /\ Copying
    BY <2>1 DEF AfterWrite, Copying
  <2> QED BY <2>1, <2>2, OrderStays, InputOrderParts DEF MainOrder
<1>5. CASE WriteDropped
  <2>1. pc = "write" /\ pc' = "overflow" /\ UNCHANGED <<inputVars, outgoing, complete>>
    BY <1>5 DEF WriteDropped
  <2> QED BY <2>1, OrderStays, InputOrderParts DEF MainOrder, Copying
<1>6. CASE Quit \/ WriteError \/ FreeInput \/ Drain \/ Joined \/ WriteTrailer \/ Closes
  BY <1>6 DEF Quit, WriteError, FreeInput, Drain, Joined, WriteTrailer, Closes, Copying
<1>7. CASE Input
  <2>1. input_thread /\ UNCHANGED <<pc, outgoing, complete>>
    BY <1>7 DEF Input, main
  <2>2. Copying
    BY <2>1 DEF Copying
  <2> QED BY <2>1, <2>2, InputThreadOrder, InputOrderParts DEF MainOrder
<1>8. CASE Writer \/ UNCHANGED vars
  <2>1. UNCHANGED inputVars /\ UNCHANGED <<pc, outgoing, complete>>
    BY <1>8 DEF Writer, vars, main
  <2>2. Copying
    BY <2>1 DEF Copying
  <2> QED BY <2>1, <2>2, OrderStays, InputOrderParts DEF MainOrder
<1> QED BY <1>1, <1>2, <1>3, <1>4, <1>5, <1>6, <1>7, <1>8 DEF Next, Main

-----------------------------------------------------------------------------
(* Packets are dropped only where the option says so, and converted more   *)
(* than once only where a dispatch may be tried again.                     *)

LEMMA NoDropStep ==
  ASSUME Types, NoDrop, OutputFiles, [Next]_vars
  PROVE  NoDrop'
<1> USE DEF NoDrop
<1>1. CASE Open \/ Start \/ GetPacket \/ Quit
  BY <1>1 DEF Open, Start, GetPacket, Quit, fifo_write_header, fifoVars, muxer, main
<1>2. CASE Write \/ WriteError
  BY <1>2 DEF Write, WriteError, WriteSent, WriteFails, muxer, AfterWrite
<1>3. CASE WriteDropped \/ Overflow
  BY <1>3 DEF WriteDropped, WriteOverflows, Overflow, SetOverflow, muxer, AfterWrite
<1>4. CASE FreeInput \/ Drain \/ Joined
  BY <1>4 DEF FreeInput, Drain, Joined, fifoVars, muxer
<1>5. CASE WriteTrailer \/ Closes
  BY <1>5 DEF WriteTrailer, EndOfPackets, Closes, JoinWriter, muxer
<1>6. CASE Input \/ UNCHANGED vars
  BY <1>6 DEF Input, vars, fifoVars, muxer, main
<1>7. CASE Writer
  <2>a. UNCHANGED pc
    BY <1>7 DEF Writer, main
  <2>1. CASE Dispatch
    <3>1. PICK o \in fifo_thread_dispatch_message(msg, drop_until_keyframe) : Dispatched(o)
      BY <2>1 DEF Dispatch
    <3>2. wpc # "dead" /\ UNCHANGED <<fifo, overflow_flag>>
      BY <2>1 DEF Dispatch
    <3>3. drop_until_keyframe' => drop_until_keyframe
      BY <3>1, <3>2, Dispatches DEF Types, WriterTypes
    <3> QED BY <2>a, <3>2, <3>3
  <2>2. CASE Attempt
    <3> DEFINE drop == \/ drop_until_keyframe
                       \/ fifo.restart_with_keyframe /\ fifo.drop_pkts_on_overflow
    <3>1. PICK o \in fifo_thread_dispatch_message(msg, drop) : Dispatched(o)
      BY <2>2 DEF Attempt
    <3>2. wpc # "dead" /\ UNCHANGED <<fifo, overflow_flag>>
      BY <2>2 DEF Attempt, Recovering
    <3>a. drop \in BOOLEAN
      BY OptionFields DEF Types, OutTypes, WriterTypes
    <3>b. drop => drop_until_keyframe \/ fifo.drop_pkts_on_overflow
      OBVIOUS
    <3> HIDE DEF drop
    <3>3. drop_until_keyframe' => drop
      BY <3>1, <3>2, <3>a, Dispatches
    <3> QED BY <2>a, <3>2, <3>3, <3>b
  <2>3. CASE GiveUp \/ CloseFailed \/ AttemptEarly
    BY <2>a, <2>3 DEF GiveUp, CloseFailed, AttemptEarly, muxer
  <2>4. CASE CheckOverflow
    BY <2>a, <2>4 DEF CheckOverflow
  <2>5. CASE Receive \/ Fail \/ Finish
    BY <2>a, <2>5 DEF Receive, Fail, Finish, muxer
  <2> QED BY <1>7, <2>1, <2>2, <2>3, <2>4, <2>5 DEF Writer, fifo_consumer_thread
<1> QED BY <1>1, <1>2, <1>3, <1>4, <1>5, <1>6, <1>7 DEF Next, Main

\* A step of another thread than the writer leaves its variables alone.
LEMMA OutputStays ==
  ASSUME Main \/ Quit \/ Input \/ UNCHANGED vars
  PROVE  UNCHANGED <<fifo, muxer, ret, msg>>
<1> USE DEF muxer, fifoVars, writer
<1>1. CASE Open \/ Start \/ GetPacket \/ Quit
  BY <1>1 DEF Open, Start, GetPacket, Quit, fifo_write_header
<1>2. CASE Write \/ WriteError
  BY <1>2 DEF Write, WriteError, WriteSent, WriteFails
<1>3. CASE WriteDropped \/ Overflow
  BY <1>3 DEF WriteDropped, WriteOverflows, Overflow, SetOverflow
<1>4. CASE FreeInput \/ Drain \/ Joined
  BY <1>4 DEF FreeInput, Drain, Joined
<1>5. CASE WriteTrailer \/ Closes
  BY <1>5 DEF WriteTrailer, EndOfPackets, Closes, JoinWriter
<1>6. CASE Input \/ UNCHANGED vars
  BY <1>6 DEF Input, vars
<1> QED BY <1>1, <1>2, <1>3, <1>4, <1>5, <1>6 DEF Main

LEMMA ConversionsStep ==
  ASSUME Types, Conversions, OutputFiles, [Next]_vars
  PROVE  Conversions'
<1>1. CASE Main \/ Quit \/ Input \/ UNCHANGED vars
  BY <1>1, OutputStays DEF Conversions, muxer
<1>2. CASE Dispatch
  <2>1. PICK o \in fifo_thread_dispatch_message(msg, drop_until_keyframe) : Dispatched(o)
    BY <1>2 DEF Dispatch
  <2>2. wpc = "dispatch" /\ UNCHANGED fifo
    BY <1>2 DEF Dispatch
  <2>3. DispatchEffect(msg, drop_until_keyframe, o.ret, output')
    BY <2>1, <2>2, Dispatches DEF Types, WriterTypes
  <2>4. Converted(output) => Converted(output')
    BY <2>2, <2>3 DEF DispatchEffect, Continues, Types, WriterFlow
  <2> QED BY <2>2, <2>4 DEF Conversions
<1>3. CASE Attempt
  <2>1. fifo.attempt_recovery /\ UNCHANGED fifo
    BY <1>3, Recoverable DEF Attempt, Recovering
  <2> QED BY <2>1 DEF Conversions
<1>4. CASE CloseFailed \/ Finish
  <2>1. fifo_thread_write_trailer /\ wpc # "dead" /\ UNCHANGED fifo
    BY <1>4 DEF CloseFailed, Recovering, Finish
  <2>2. Continues(output, output', Header)
    BY <2>1, TrailerWrites DEF OutputFiles
  <2> QED BY <2>1, <2>2 DEF Conversions, Continues, Header, Message
<1>5. CASE GiveUp \/ AttemptEarly \/ CheckOverflow \/ Receive \/ Fail
  BY <1>5 DEF GiveUp, AttemptEarly, CheckOverflow, Receive, Fail, muxer, Conversions
<1> QED BY <1>1, <1>2, <1>3, <1>4, <1>5 DEF Next, Writer, fifo_consumer_thread

-----------------------------------------------------------------------------
(* How the packets move: the writer takes one from the queue in its hand   *)
(* and from there to the output; it loses one only where that may be.      *)

WriterMoves ==
  /\ Rising(output) /\ Below(Numbers(output), Hand) => Rising(output')
  /\ Numbers(output) \subseteq Numbers(output')
  /\ Numbers(output') \subseteq Numbers(output) \cup Hand
  /\ \/ /\ queue' \in {queue, <<>>} /\ Hand' \subseteq Hand
        /\ Numbers(output') = Numbers(output) \/ Hand' = {}
     \/ /\ Numbers(output') = Numbers(output) /\ Hand = {}
        /\ Numbers(queue) = Numbers(queue') \cup Hand'
        /\ Rising(queue) => Rising(queue') /\ Below(Hand', Numbers(queue'))

WriterKeeps ==
  ~fifo.drop_pkts_on_overflow /\ EOF \notin Faults /\ Fine' => Fine /\ Line \subseteq Line'

LEMMA DispatchMoves ==
  ASSUME Types, OutputFiles, NoDrop, Dispatch
  PROVE  WriterMoves /\ WriterKeeps
<1>1. PICK o \in fifo_thread_dispatch_message(msg, drop_until_keyframe) :
        Dispatched(o) /\ wpc' = IF o.ret = OK THEN "check" ELSE "recover"
  BY DEF Dispatch
<1>2. wpc = "dispatch" /\ queue' = queue
  BY DEF Dispatch, outQueue
<1>3. /\ DispatchEffect(msg, drop_until_keyframe, o.ret, output')
      /\ msg'.pkt = msg.pkt
  BY <1>1, <1>2, Dispatches DEF Types, WriterTypes
<1>4. /\ Hand = {msg.pkt} \ {0}
      /\ Hand' = IF o.ret = OK THEN {} ELSE Hand
  BY <1>1, <1>2, <1>3 DEF Hand
<1>5. WriterMoves
  BY <1>2, <1>3, <1>4 DEF WriterMoves, DispatchEffect, Continues
<1>6. WriterKeeps
  <2> SUFFICES ASSUME ~fifo.drop_pkts_on_overflow PROVE Fine /\ Line \subseteq Line'
    BY DEF WriterKeeps
  <2>1. ~drop_until_keyframe
    BY DEF NoDrop
  <2>2. Numbers(output') \cup Hand' = Numbers(output) \cup Hand
    BY <2>1, <1>3, <1>4 DEF DispatchEffect
  <2> QED BY <1>2, <2>2 DEF Fine, Line
<1> QED BY <1>5, <1>6

LEMMA AttemptMoves ==
  ASSUME Types, OutputFiles, NoDrop, Attempt
  PROVE  WriterMoves /\ WriterKeeps
<1> DEFINE drop == \/ drop_until_keyframe
                   \/ fifo.restart_with_keyframe /\ fifo.drop_pkts_on_overflow
<1>1. PICK o \in fifo_thread_dispatch_message(msg, drop) :
        /\ Dispatched(o)
        /\ \/ o.ret = OK /\ wpc' = "check"
           \/ o.ret # OK /\ wpc' = "fail" /\ ret' = o.ret
           \/ /\ o.ret # OK
              /\ wpc' = IF fifo.drop_pkts_on_overflow THEN "check" ELSE "recover"
  BY DEF Attempt
<1>2. wpc = "recover" /\ queue' = queue
  BY DEF Attempt, Recovering, outQueue
<1>a. drop \in BOOLEAN
  BY OptionFields DEF Types, OutTypes, WriterTypes
<1>b. NoDrop /\ ~fifo.drop_pkts_on_overflow => ~drop
  BY DEF NoDrop
<1> HIDE DEF drop
<1>3. /\ DispatchEffect(msg, drop, o.ret, output')
      /\ msg'.pkt = msg.pkt /\ (o.ret = OK \/ Fault(o.ret))
  BY <1>1, <1>2, <1>a, Dispatches
<1>4. Hand = {msg.pkt} \ {0}
  BY <1>2 DEF Hand
<1>5. Hand' = IF wpc' = "recover" THEN Hand ELSE {}
  BY <1>1, <1>3, <1>4 DEF Hand
<1>6. WriterMoves
  <2>1. wpc' = "recover" => o.ret # OK
    BY <1>1
  <2> QED BY <2>1, <1>2, <1>3, <1>4, <1>5 DEF WriterMoves, DispatchEffect, Continues
<1>7. WriterKeeps
  <2> SUFFICES ASSUME ~fifo.drop_pkts_on_overflow, EOF \notin Faults, Fine'
               PROVE  Fine /\ Line \subseteq Line'
    BY DEF WriterKeeps
  <2>1. wpc' # "fail"
    BY <1>1, <1>3, FaultsDoNotEnd DEF Fine
  <2>2. o.ret # OK => wpc' = "recover"
    BY <1>1, <2>1
  <2>3. ~drop
    BY <1>b
  <2>4. Numbers(output) \cup Hand \subseteq Numbers(output') \cup Hand'
    BY <2>2, <2>3, <1>3, <1>4, <1>5 DEF DispatchEffect
  <2> QED BY <1>2, <2>4 DEF Fine, Line
<1> QED BY <1>6, <1>7

LEMMA WriterStepMoves ==
  ASSUME Types, OutputFiles, NoDrop,
         \/ GiveUp \/ CloseFailed \/ AttemptEarly \/ CheckOverflow \/ Receive \/ Fail \/ Finish
  PROVE  WriterMoves /\ WriterKeeps
<1>a. ASSUME output' = output, queue' \in {queue, <<>>}, Hand' \subseteq Hand
      PROVE  WriterMoves
  BY <1>a DEF WriterMoves
<1>1. CASE GiveUp
  <2>1. /\ Fault(ret) /\ ret' = ret
        /\ wpc' = "fail" \/ (fifo.drop_pkts_on_overflow /\ wpc' = "check")
    BY <1>1, GivingUp
  <2>2. output' = output /\ queue' = queue /\ Hand' = {}
    BY <1>1, <2>1 DEF GiveUp, muxer, outQueue, Hand
  <2>3. WriterMoves
    BY <2>2, <1>a
  <2>4. WriterKeeps
    BY <2>1, FaultsDoNotEnd DEF WriterKeeps, Fine
  <2> QED BY <2>3, <2>4
<1>2. CASE CloseFailed \/ Finish
  <2>1. /\ fifo_thread_write_trailer /\ wpc # "dead" /\ Hand' = Hand
        /\ UNCHANGED <<queue, out_err_send>> /\ (Fine' => Fine)
    BY <1>2 DEF CloseFailed, Recovering, Finish, writer, outQueue, Hand, Fine
  <2>2. Continues(output, output', msg) /\ Numbers(output') = Numbers(output)
    BY <2>1, TrailerWrites DEF OutputFiles
  <2>3. Rising(output) /\ Below(Numbers(output), Hand) => Rising(output')
    <3>1. Continues(output, output', Header) /\ Header.pkt = 0
      BY <2>1, TrailerWrites DEF OutputFiles, Header, Message
    <3>2. Below(Numbers(output), {Header.pkt} \ {0})
      BY <3>1 DEF Below
    <3> QED BY <3>1, <3>2 DEF Continues
  <2> QED BY <2>1, <2>2, <2>3 DEF WriterMoves, WriterKeeps, Line
<1>3. CASE AttemptEarly
  <2>1. /\ output' = output /\ queue' = queue /\ Hand' = {} /\ fifo.drop_pkts_on_overflow
    BY <1>3 DEF AttemptEarly, muxer, outQueue, Hand
  <2> QED BY <2>1, <1>a DEF WriterKeeps
<1>4. CASE CheckOverflow
  <2>1. output' = output /\ queue' \in {queue, <<>>} /\ Hand' = {} /\ Hand = {}
    BY <1>4 DEF CheckOverflow, outQueue, Out!Flush, Hand
  <2>2. ~fifo.drop_pkts_on_overflow => queue' = queue
    BY <1>4 DEF CheckOverflow, outQueue, NoDrop
  <2>3. Fine
    BY <1>4 DEF CheckOverflow, Fine
  <2> QED BY <2>1, <2>2, <2>3, <1>a DEF WriterKeeps, Line
<1>5. CASE Receive
  <2>a. wpc = "recv" /\ output' = output /\ Hand = {} /\ Fine
    BY <1>5 DEF Receive, muxer, Hand, Fine
  <2>1. CASE /\ Out!Get("writer")
             /\ msg' = Head(queue) /\ ret' = OK
             /\ wpc' = IF recovery_nr = 0 THEN "dispatch" ELSE "recover"
    <3>1. queue # <<>> /\ queue' = Tail(queue) /\ queue \in Seq(Messages)
      BY <2>1 DEF Out!Get, Types, OutTypes
    <3>2. Hand' = {Head(queue).pkt} \ {0}
      BY <2>1 DEF Hand
    <3>3. /\ Numbers(queue) = Numbers(queue') \cup Hand'
          /\ Rising(queue) => Rising(queue') /\ Below(Hand', Numbers(queue'))
      BY <3>1, <3>2, TailNumbers, PktsAreNumbers
    <3> QED BY <2>a, <3>3 DEF WriterMoves, WriterKeeps, Line
  <2>2. CASE Out!GetError("writer") /\ wpc' = "fail"
    <3>1. queue' = queue /\ Hand' = {}
      BY <2>2 DEF Out!GetError, Hand
    <3> QED BY <2>a, <3>1, <1>a DEF WriterKeeps, Line
  <2> QED BY <2>1, <2>2, <1>5 DEF Receive
<1>6. CASE Fail
  <2>1. /\ output' = output /\ queue' = queue /\ Hand' = {} /\ Hand = {}
        /\ (Fine' => Fine)
    BY <1>6 DEF Fail, muxer, Out!SetErrSend, Hand, Fine
  <2> QED BY <2>1, <1>a DEF WriterKeeps, Line
<1> QED BY <1>1, <1>2, <1>3, <1>4, <1>5, <1>6

LEMMA WriterStep ==
  ASSUME Types, OutputFiles, NoDrop, Writer
  PROVE  WriterMoves /\ WriterKeeps /\ UNCHANGED <<inputVars, main, fifo>>
<1>1. fifo_consumer_thread /\ UNCHANGED <<inputVars, main>>
  BY DEF Writer
<1>2. UNCHANGED fifo
  <2>1. CASE Dispatch \/ GiveUp \/ CloseFailed \/ AttemptEarly \/ Attempt
    BY <2>1 DEF Dispatch, GiveUp, CloseFailed, AttemptEarly, Attempt
  <2>2. CASE CheckOverflow \/ Receive \/ Fail \/ Finish
    BY <2>2 DEF CheckOverflow, Receive, Fail, Finish
  <2> QED BY <1>1, <2>1, <2>2 DEF fifo_consumer_thread
<1> QED BY <1>1, <1>2, DispatchMoves, AttemptMoves, WriterStepMoves DEF fifo_consumer_thread

\* The steps of the other threads: one puts a packet, or the flush, behind the others,
\* and the last empties the queue once the writer has ended.
MainPuts ==
  /\ pc = "write" /\ queue' = Append(queue, outgoing)
  /\ pc' = AfterWrite /\ UNCHANGED <<inputVars, outgoing, complete>>
MainCloses == wpc = "dead" /\ pc = "wait" /\ pc' = "closed" /\ queue' = <<>> /\ UNCHANGED complete

LEMMA MainMoves ==
  ASSUME Types, Main \/ Quit \/ Input \/ UNCHANGED vars
  PROVE  /\ Hand' = Hand
         /\ UNCHANGED <<output, fifo>> /\ (Fine' <=> Fine)
         /\ MainPuts \/ MainCloses \/ queue' = queue
<1>1. UNCHANGED <<output, fifo, msg, ret>>
  BY OutputStays DEF muxer
<1> DEFINE Stays == UNCHANGED <<wpc, out_err_send>>
<1>2. Stays => Hand' = Hand /\ (Fine' <=> Fine)
  BY <1>1 DEF Hand, Fine
<1> USE DEF fifoVars, outQueue, writer
<1>3. CASE Open
  <2>1. wpc = "none" /\ wpc' = "dispatch" /\ queue' = queue
    BY <1>3 DEF Open, fifo_write_header
  <2>2. msg.pkt = 0
    BY <2>1 DEF Types, WriterFlow
  <2>3. Hand' = {} /\ Hand = {} /\ Fine /\ Fine'
    BY <1>1, <2>1, <2>2 DEF Hand, Fine
  <2> QED BY <1>1, <2>1, <2>3
<1>4. CASE Start \/ GetPacket \/ Quit
  <2>1. Stays /\ queue' = queue
    BY <1>4 DEF Start, GetPacket, Quit
  <2> QED BY <1>1, <1>2, <2>1
<1>5. CASE Write
  <2>1. Stays /\ MainPuts
    BY <1>5 DEF Write, WriteSent, Out!Put, MainPuts
  <2> QED BY <1>1, <1>2, <2>1
<1>6. CASE WriteError \/ WriteDropped \/ Overflow
  <2>1. Stays /\ queue' = queue
    BY <1>6 DEF WriteError, WriteFails, Out!PutError, WriteDropped, WriteOverflows,
                Out!TryAgain, Overflow, SetOverflow
  <2> QED BY <1>1, <1>2, <2>1
<1>7. CASE FreeInput \/ Drain \/ Joined
  <2>1. Stays /\ queue' = queue
    BY <1>7 DEF FreeInput, Drain, Joined
  <2> QED BY <1>1, <1>2, <2>1
<1>8. CASE WriteTrailer
  <2>1. Stays /\ queue' = queue
    BY <1>8 DEF WriteTrailer, EndOfPackets, Out!SetErrRecv
  <2> QED BY <1>1, <1>2, <2>1
<1>9. CASE Closes
  <2>1. Stays /\ MainCloses
    BY <1>9 DEF Closes, JoinWriter, Out!Flush, MainCloses
  <2> QED BY <1>1, <1>2, <2>1
<1>10. CASE Input \/ UNCHANGED vars
  <2>1. Stays /\ queue' = queue
    BY <1>10 DEF Input, vars
  <2> QED BY <1>1, <1>2, <2>1
<1> QED BY <1>3, <1>4, <1>5, <1>6, <1>7, <1>8, <1>9, <1>10 DEF Main

\* How many packets the main thread has passed on or dropped.
LEMMA PassedStep ==
  ASSUME Types, InputOrder, Main \/ Quit \/ Input \/ UNCHANGED vars, Copying'
  PROVE  /\ Copying /\ Passed \in Int
         /\ \/ MainPuts /\ outgoing # Flush /\ Passed' = Passed + 1 /\ outgoing.pkt = Passed'
            \/ ~MainPuts /\ Passed' = Passed
            \/ fifo.drop_pkts_on_overflow /\ ~MainPuts /\ Passed' = Passed + 1
<1>1. Taken \in Int /\ Passed \in Int
  BY TakenNumber DEF Passed
<1>2. CASE Open
  <2>1. pc = "header" /\ pc' = "start" /\ UNCHANGED inputVars
    BY <1>2 DEF Open
  <2> QED BY <1>1, <2>1, OrderStays DEF Passed, Copying, MainPuts
<1>3. CASE Start
  <2>1. /\ pc = "start" /\ pc' = "get" /\ UNCHANGED <<inQueue, nread>>
        /\ ipc = "none" /\ ipc' = "read"
    BY <1>3 DEF Start, init_input_thread
  <2>2. Taken' = Taken
    BY <2>1 DEF Taken, Sent, inQueue
  <2> QED BY <1>1, <2>1, <2>2 DEF Passed, Copying, MainPuts
<1>4. CASE GetPacket
  <2>1. pc = "get" /\ Copying
    BY <1>4 DEF GetPacket, Copying
  <2>2. Passed' = Taken
    BY <1>4, <2>1, GetPacketOrder, InputOrderParts
  <2> QED BY <1>1, <2>1, <2>2 DEF Passed, MainPuts
<1>5. CASE Write
  <2>1. MainPuts
    BY <1>5 DEF Write, WriteSent, Out!Put, MainPuts
  <2>2. outgoing # Flush /\ pc = "write" /\ pc' = "get" /\ Taken' = Taken
    BY <2>1, OrderStays DEF MainPuts, AfterWrite, Copying
  <2>3. Copying /\ outgoing.pkt = Taken
    BY <2>2, InputOrderParts DEF Copying, MainOrder
  <2> QED BY <1>1, <2>1, <2>2, <2>3 DEF Passed
<1>6. CASE WriteDropped
  <2>1. /\ pc = "write" /\ pc' = "overflow" /\ Taken' = Taken /\ fifo.drop_pkts_on_overflow
    BY <1>6, OrderStays DEF WriteDropped, WriteOverflows
  <2>2. ~MainPuts
    BY <2>1 DEF MainPuts, AfterWrite
  <2> QED BY <1>1, <2>1, <2>2 DEF Passed, Copying
<1>7. CASE Overflow
  <2>1. /\ pc = "overflow" /\ pc' = AfterWrite /\ Taken' = Taken
    BY <1>7, OrderStays DEF Overflow
  <2>2. pc' = "get"
    BY <2>1 DEF AfterWrite, Copying
  <2> QED BY <1>1, <2>1, <2>2 DEF Passed, Copying, MainPuts
<1>8. CASE Quit \/ WriteError \/ FreeInput \/ Drain \/ Joined \/ WriteTrailer \/ Closes
  BY <1>8 DEF Quit, WriteError, FreeInput, Drain, Joined, WriteTrailer, Closes, Copying
<1>9. CASE Input
  <2>1. input_thread /\ UNCHANGED <<fifoVars, pc, outgoing, complete>>
    BY <1>9 DEF Input, main
  <2>2. Copying
    BY <2>1 DEF Copying
  <2>3. Taken' = Taken
    BY <2>1, <2>2, InputThreadOrder, InputOrderParts
  <2>4. ~MainPuts
    BY <2>1 DEF MainPuts, AfterWrite
  <2> QED BY <1>1, <2>1, <2>2, <2>3, <2>4 DEF Passed
<1>10. CASE UNCHANGED vars
  <2>1. UNCHANGED <<inputVars, pc, outgoing, complete>>
    BY <1>10 DEF vars, main
  <2>2. ~MainPuts
    BY <2>1 DEF MainPuts, AfterWrite
  <2> QED BY <1>1, <2>1, <2>2, OrderStays DEF Passed, Copying
<1> QED BY <1>2, <1>3, <1>4, <1>5, <1>6, <1>7, <1>8, <1>9, <1>10 DEF Main

-----------------------------------------------------------------------------
(* The order of the packets.                                               *)

\* A, H and Q: the numbers in the output, in the writer's hand and in the queue.
InLine(A, H, Q) == Below(A, H) /\ Below(A, Q) /\ Below(H, Q)

LEMMA LineMoves ==
  ASSUME NEW A, NEW H, NEW Q, NEW A2, NEW H2, NEW Q2, InLine(A, H, Q),
         A2 \subseteq A \cup H,
         \/ Q2 \subseteq Q /\ H2 \subseteq H /\ (A2 = A \/ H2 = {})
         \/ A2 = A /\ H = {} /\ Q = Q2 \cup H2 /\ Below(H2, Q2)
  PROVE  InLine(A2, H2, Q2) /\ A2 \cup H2 \cup Q2 \subseteq A \cup H \cup Q
BY DEF InLine, Below

LEMMA OrderedParts ==
  Ordered <=> /\ Rising(output) /\ Rising(queue)
              /\ InLine(Numbers(output), Hand, Numbers(queue))
              /\ Copying => \A n \in Line : n <= Passed
BY DEF Ordered, InLine

LEMMA NumbersOf ==
  ASSUME NEW S, \A x \in S : x.pkt \in Nat, NEW s \in Seq(S)
  PROVE  \A n \in Numbers(s) : n \in Nat
<1>1. DOMAIN s = 1 .. Len(s) /\ \A k \in 1 .. Len(s) : s[k] \in S
  BY LenProperties, ElementOfSeq
<1> QED BY <1>1 DEF Numbers

LEMMA LineNumbers ==
  ASSUME Types
  PROVE  \A n \in Line : n \in Nat
<1>1. /\ output \in Seq(OutEvents) /\ queue \in Seq(Messages) /\ msg \in Given
  BY DEF Types, WriterTypes, OutTypes
<1>2. \A n \in Numbers(output) : n \in Nat
  BY <1>1, NumbersOf, PktsAreNumbers
<1>3. \A n \in Numbers(queue) : n \in Nat
  BY <1>1, NumbersOf, PktsAreNumbers
<1>4. \A n \in Hand : n \in Nat
  BY <1>1, GivenFields DEF Hand
<1> QED BY <1>2, <1>3, <1>4 DEF Line

LEMMA OrderedStep ==
  ASSUME TypeInv, InputOrder, NoDrop, Ordered, [Next]_vars
  PROVE  Ordered'
<1> USE DEF TypeInv
<1>1. CASE Writer
  <2>1. WriterMoves /\ UNCHANGED <<inputVars, main>>
    BY <1>1, WriterStep
  <2>2. Numbers(<<>>) = {} /\ Rising(<<>>)
    BY EmptyNumbers
  <2>3. /\ InLine(Numbers(output'), Hand', Numbers(queue')) /\ Line' \subseteq Line
        /\ Rising(queue')
    <3>1. InLine(Numbers(output), Hand, Numbers(queue))
      BY OrderedParts
    <3>2. CASE /\ queue' \in {queue, <<>>} /\ Hand' \subseteq Hand
               /\ Numbers(output') = Numbers(output) \/ Hand' = {}
      <4>1. Numbers(queue') \subseteq Numbers(queue) /\ Rising(queue')
        BY <3>2, <2>2 DEF Ordered
      <4> QED BY <3>1, <3>2, <4>1, <2>1, LineMoves DEF WriterMoves, Line
    <3>3. CASE /\ Numbers(output') = Numbers(output) /\ Hand = {}
               /\ Numbers(queue) = Numbers(queue') \cup Hand'
               /\ Rising(queue) => Rising(queue') /\ Below(Hand', Numbers(queue'))
      <4>1. Rising(queue') /\ Below(Hand', Numbers(queue'))
        BY <3>3 DEF Ordered
      <4> QED BY <3>1, <3>3, <4>1, <2>1, LineMoves DEF WriterMoves, Line
    <3> QED BY <2>1, <3>2, <3>3 DEF WriterMoves
  <2>4. Rising(output')
    BY <2>1 DEF WriterMoves, Ordered
  <2>5. Passed' = Passed /\ (Copying' <=> Copying)
    BY <2>1, OrderStays DEF main, Passed, Copying
  <2>6. Copying' => \A n \in Line' : n <= Passed'
    BY <2>3, <2>5 DEF Ordered
  <2> QED BY <2>3, <2>4, <2>6 DEF Ordered, InLine
<1>2. CASE Main \/ Quit \/ Input \/ UNCHANGED vars
  <2>1. /\ Hand' = Hand /\ UNCHANGED output
        /\ MainPuts \/ MainCloses \/ queue' = queue
    BY <1>2, MainMoves
  <2>2. \A n \in Line : n \in Nat
    BY LineNumbers
  <2>3. CASE MainPuts
    <3>1. /\ pc = "write" /\ Copying /\ outgoing \in Messages /\ queue \in Seq(Messages)
          /\ queue' = Append(queue, outgoing)
      BY <2>3 DEF MainPuts, Copying, Types, MainTypes, OutTypes
    <3> DEFINE N == {outgoing.pkt} \ {0}
    <3>2. /\ Numbers(queue') = Numbers(queue) \cup N
          /\ Rising(queue) /\ Below(Numbers(queue), N) => Rising(queue')
      BY <3>1, AppendNumber, PktsAreNumbers
    <3>3. ASSUME NEW n \in Line, NEW m \in N PROVE n < m
      <4>1. m = outgoing.pkt /\ outgoing # Flush
        BY <3>1, <3>3, MessagesAreGiven
      <4>2. m = Taken /\ Passed = Taken - 1 /\ Taken \in Int
        BY <3>1, <4>1, InputOrderParts, TakenNumber DEF MainOrder, Passed
      <4>3. n <= Passed
        BY <3>1 DEF Ordered
      <4> QED BY <4>2, <4>3, <2>2
    <3>4. /\ Below(Numbers(output), N) /\ Below(Hand, N) /\ Below(Numbers(queue), N)
      BY <3>3 DEF Below, Line
    <3>5. Line' = Line \cup N
      BY <2>1, <3>2 DEF Line
    <3>6. ASSUME Copying', NEW n \in Line' PROVE n <= Passed'
      <4>1. /\ Passed \in Int
            /\ outgoing # Flush /\ Passed' = Passed + 1 /\ outgoing.pkt = Passed'
        BY <1>2, <2>3, <3>6, PassedStep
      <4>2. PICK k \in Int : k = Passed'
        BY <4>1
      <4>3. CASE n \in Line
        <5>1. n <= Passed /\ n \in Nat
          BY <3>1, <4>3, <2>2 DEF Ordered
        <5> QED BY <4>1, <4>2, <5>1
      <4>4. CASE n \in N
        BY <4>1, <4>2, <4>4
      <4> QED BY <4>3, <4>4, <3>5, <3>6
    <3> HIDE DEF N
    <3>7. /\ Rising(output') /\ Rising(queue')
          /\ Below(Numbers(output'), Hand') /\ Below(Numbers(output'), Numbers(queue'))
          /\ Below(Hand', Numbers(queue'))
      BY <2>1, <3>2, <3>4 DEF Ordered, Below
    <3> QED BY <3>6, <3>7 DEF Ordered
  <2>4. CASE queue' = queue
    <3>1. Line' = Line
      BY <2>1, <2>4 DEF Line
    <3>2. ASSUME Copying', NEW n \in Line' PROVE n <= Passed'
      <4>1. /\ Copying /\ Passed \in Int
            /\ Passed' = Passed \/ Passed' = Passed + 1
        BY <1>2, <3>2, PassedStep
      <4>2. n <= Passed /\ n \in Nat
        BY <3>1, <3>2, <4>1, <2>2 DEF Ordered
      <4>3. PICK k \in Int : k = Passed'
        BY <4>1
      <4> QED BY <4>1, <4>2, <4>3
    <3>3. /\ Rising(output') /\ Rising(queue')
          /\ Below(Numbers(output'), Hand') /\ Below(Numbers(output'), Numbers(queue'))
          /\ Below(Hand', Numbers(queue'))
      BY <2>1, <2>4 DEF Ordered
    <3> QED BY <3>2, <3>3 DEF Ordered
  <2>5. CASE MainCloses
    <3>1. queue' = <<>> /\ ~Copying'
      BY <2>5 DEF MainCloses, Copying
    <3>2. Numbers(queue') = {} /\ Rising(queue')
      BY <3>1, EmptyNumbers
    <3> QED BY <2>1, <3>1, <3>2 DEF Ordered, Below
  <2> QED BY <2>1, <2>3, <2>4, <2>5
<1> QED BY <1>1, <1>2 DEF Next

-----------------------------------------------------------------------------
(* The end: a writer that ends without an error has written every packet.  *)

LEMMA EndingsStep ==
  ASSUME TypeInv, NoDrop, Endings, EOF \notin Faults, [Next]_vars
  PROVE  Endings'
<1> USE DEF TypeInv, Types
<1>a. NoError # EOF
  BY CodesAssumption DEF Errors
<1>1. CASE Writer
  <2>a. UNCHANGED pc
    BY <1>1 DEF Writer, main
  <2>1. CASE Dispatch
    <3>1. wpc' \in {"check", "recover"} /\ wpc = "dispatch" /\ UNCHANGED <<out_err_send, out_err_recv>>
      BY <2>1 DEF Dispatch, outQueue
    <3> QED BY <2>a, <3>1 DEF Endings
  <2>2. CASE Attempt
    <3>1. PICK o \in fifo_thread_dispatch_message(msg,
                       drop_until_keyframe \/ (fifo.restart_with_keyframe /\ fifo.drop_pkts_on_overflow)) :
            /\ Dispatched(o)
            /\ wpc' \in {"check", "recover"} \/ (wpc' = "fail" /\ o.ret # OK /\ ret' = o.ret)
      BY <2>2 DEF Attempt
    <3>2. wpc = "recover" /\ UNCHANGED <<out_err_send, out_err_recv>>
      BY <2>2 DEF Attempt, Recovering, outQueue
    <3>3. o.ret = OK \/ Fault(o.ret)
      <4>1. (drop_until_keyframe \/ (fifo.restart_with_keyframe /\ fifo.drop_pkts_on_overflow))
              \in BOOLEAN
        BY OptionFields DEF OutTypes, WriterTypes
      <4> QED BY <3>1, <3>2, <4>1, Dispatches
    <3>4. wpc' = "fail" => ret' # EOF
      BY <3>1, <3>3, FaultsDoNotEnd
    <3>5. wpc' \in {"check", "recover", "fail"}
      BY <3>1
    <3> QED BY <2>a, <3>2, <3>4, <3>5 DEF Endings
  <2>3. CASE GiveUp
    <3>1. ret' # EOF /\ wpc' \in {"fail", "check"}
      BY <2>3, GivingUp, FaultsDoNotEnd
    <3> QED BY <2>a, <2>3, <3>1 DEF GiveUp, outQueue, Endings
  <2>4. CASE CloseFailed \/ AttemptEarly
    BY <2>a, <2>4 DEF CloseFailed, AttemptEarly, Recovering, outQueue, writer, Endings
  <2>5. CASE CheckOverflow
    BY <2>a, <2>5 DEF CheckOverflow, outQueue, Out!Flush, Endings
  <2>6. CASE Receive
    <3>1. wpc = "recv" /\ UNCHANGED <<out_err_send, out_err_recv>>
      BY <2>6 DEF Receive, Out!Get, Out!GetError
    <3>2. \/ wpc' \in {"dispatch", "recover"}
          \/ /\ wpc' = "fail" /\ ret' = out_err_recv /\ out_err_recv # NoError
             /\ queue = <<>> /\ queue' = queue
      BY <2>6 DEF Receive, Out!GetError
    <3> QED BY <2>a, <3>1, <3>2 DEF Endings, OutTypes
  <2>7. CASE Fail
    BY <2>a, <2>7 DEF Fail, Out!SetErrSend, Endings
  <2>8. CASE Finish
    BY <2>a, <2>8 DEF Finish, outQueue, Endings
  <2> QED BY <1>1, <2>1, <2>2, <2>3, <2>4, <2>5, <2>6, <2>7, <2>8
          DEF Writer, fifo_consumer_thread
<1> USE DEF fifoVars, outQueue, writer
<1>2. CASE Open \/ Start \/ GetPacket \/ Quit
  BY <1>2 DEF Open, Start, GetPacket, Quit, fifo_write_header, main, Endings
<1>3. CASE Write
  <2>1. pc = "write" /\ UNCHANGED <<out_err_send, out_err_recv, wpc, ret>>
    BY <1>3 DEF Write, WriteSent, Out!Put
  <2>2. out_err_recv = NoError
    BY <2>1 DEF Endings
  <2> QED BY <2>1, <2>2, <1>a DEF Endings
<1>4. CASE WriteError
  <2>1. pc = "write" /\ UNCHANGED <<queue, out_err_send, out_err_recv, wpc, ret>>
    BY <1>4 DEF WriteError, WriteFails, Out!PutError
  <2> QED BY <2>1 DEF Endings
<1>5. CASE WriteDropped \/ Overflow
  <2>1. /\ pc \in {"write", "overflow"}
        /\ UNCHANGED <<queue, out_err_send, out_err_recv, wpc, ret>>
    BY <1>5 DEF WriteDropped, WriteOverflows, Out!TryAgain, Overflow, SetOverflow
  <2> QED BY <2>1 DEF Endings
<1>6. CASE FreeInput \/ Drain \/ Joined
  BY <1>6 DEF FreeInput, Drain, Joined, Endings
<1>7. CASE WriteTrailer
  <2>1. /\ pc = "trailer" /\ pc' = "wait" /\ out_err_recv' = EOF
        /\ UNCHANGED <<queue, out_err_send, wpc, ret>>
    BY <1>7 DEF WriteTrailer, EndOfPackets, Out!SetErrRecv
  <2> QED BY <2>1 DEF Endings
<1>8. CASE Closes
  <2>1. /\ pc = "wait" /\ pc' = "closed" /\ queue' = <<>>
        /\ UNCHANGED <<out_err_send, out_err_recv, wpc, ret>>
    BY <1>8 DEF Closes, JoinWriter, Out!Flush
  <2> QED BY <2>1 DEF Endings
<1>9. CASE Input \/ UNCHANGED vars
  BY <1>9 DEF Input, vars, main, Endings
<1> QED BY <1>1, <1>2, <1>3, <1>4, <1>5, <1>6, <1>7, <1>8, <1>9 DEF Next, Main

\* Who has taken every packet takes no other.
LEMMA CompleteStep ==
  ASSUME Types, InputOrder, [Next]_vars, complete'
  PROVE  complete \/ (Copying /\ Passed = MaxPkts)
<1>1. CASE GetPacket
  <2>1. pc = "get" /\ Copying
    BY <1>1 DEF GetPacket, Copying
  <2>2. Taken = MaxPkts
    BY <1>1, <2>1, GetPacketOrder, InputOrderParts
  <2> QED BY <2>1, <2>2 DEF Passed
<1>2. CASE Open \/ Start \/ Quit \/ Write \/ WriteError \/ WriteDropped \/ Overflow
  BY <1>2 DEF Open, Start, Quit, Write, WriteError, WriteDropped, Overflow
<1>3. CASE FreeInput \/ Drain \/ Joined \/ WriteTrailer \/ Closes
  BY <1>3 DEF FreeInput, Drain, Joined, WriteTrailer, Closes
<1>4. CASE Input \/ Writer \/ UNCHANGED vars
  BY <1>4 DEF Input, Writer, vars, main
<1> QED BY <1>1, <1>2, <1>3, <1>4 DEF Next, Main

LEMMA KeptStep ==
  ASSUME TypeInv, InputOrder, NoDrop, Endings, Kept, EOF \notin Faults, [Next]_vars
  PROVE  Kept'
<1> USE DEF TypeInv
<1> SUFFICES ASSUME ~fifo'.drop_pkts_on_overflow, Fine'
             PROVE  /\ complete' => Pkts \subseteq Line'
                    /\ Copying' => 1 .. Passed' \subseteq Line'
  BY DEF Kept
<1>1. complete' => complete \/ (Copying /\ Passed = MaxPkts)
  BY CompleteStep
<1>2. CASE Writer
  <2>1. WriterKeeps /\ UNCHANGED <<inputVars, main, fifo>>
    BY <1>2, WriterStep
  <2>2. Fine /\ Line \subseteq Line' /\ ~fifo.drop_pkts_on_overflow
    BY <2>1 DEF WriterKeeps
  <2>3. Passed' = Passed /\ (Copying' <=> Copying) /\ complete' = complete
    BY <2>1, OrderStays DEF main, Passed, Copying
  <2> QED BY <2>2, <2>3 DEF Kept
<1>3. CASE Main \/ Quit \/ Input \/ UNCHANGED vars
  <2>1. /\ Hand' = Hand /\ UNCHANGED <<output, fifo>> /\ Fine
        /\ MainPuts \/ MainCloses \/ queue' = queue
    BY <1>3, MainMoves
  <2>2. Numbers(queue') = IF MainPuts THEN Numbers(queue) \cup ({outgoing.pkt} \ {0})
                          ELSE Numbers(queue)
    <3>1. CASE MainPuts
      <4>1. /\ outgoing \in Messages /\ queue \in Seq(Messages)
            /\ queue' = Append(queue, outgoing)
        BY <3>1 DEF MainPuts, Types, MainTypes, OutTypes
      <4> QED BY <3>1, <4>1, AppendNumber, PktsAreNumbers
    <3>2. CASE MainCloses
      <4>1. queue = <<>> /\ queue' = <<>> /\ ~MainPuts
        BY <2>1, <3>2 DEF MainCloses, MainPuts, Fine, Endings
      <4> QED BY <4>1
    <3>3. CASE queue' = queue /\ ~MainPuts
      BY <3>3
    <3> QED BY <2>1, <3>1, <3>2, <3>3
  <2>3. Line \subseteq Line' /\ (MainPuts => Line' = Line \cup ({outgoing.pkt} \ {0}))
    BY <2>1, <2>2 DEF Line
  <2>4. ASSUME complete' PROVE Pkts \subseteq Line'
    BY <1>1, <2>1, <2>3, <2>4 DEF Kept
  <2>5. ASSUME Copying' PROVE 1 .. Passed' \subseteq Line'
    <3>1. /\ Copying /\ Passed \in Int
          /\ \/ MainPuts /\ outgoing # Flush /\ Passed' = Passed + 1 /\ outgoing.pkt = Passed'
             \/ ~MainPuts /\ Passed' = Passed
      BY <1>3, <2>1, <2>5, PassedStep
    <3>2. 1 .. Passed \subseteq Line
      BY <2>1, <3>1 DEF Kept
    <3>3. CASE Passed' = Passed
      BY <2>3, <3>2, <3>3
    <3>4. CASE MainPuts /\ Passed' = Passed + 1 /\ outgoing.pkt = Passed'
      <4>1. PICK k \in Int : k = Passed'
        BY <3>1, <3>4
      <4>2. \A n \in 1 .. k : n \in 1 .. Passed \/ (n = outgoing.pkt /\ n # 0)
        BY <3>1, <3>4, <4>1
      <4>3. \A n \in 1 .. k : n \in Line'
        BY <2>3, <3>2, <3>4, <4>2
      <4> QED BY <4>1, <4>3
    <3> QED BY <3>1, <3>3, <3>4
  <2> QED BY <2>4, <2>5
<1> QED BY <1>2, <1>3 DEF Next

-----------------------------------------------------------------------------
(* The output.                                                             *)

OrderInv == TypeInv /\ InputOrder /\ Conversions /\ NoDrop /\ Ordered

LEMMA OrderInvariance == Spec => []OrderInv
<1>1. Init => OrderInv
  <2> SUFFICES ASSUME Init PROVE OrderInv
    OBVIOUS
  <2>1. TypeInv /\ InputOrder
    BY InitTypes, InitInputOrder
  <2>2. /\ output = <<>> /\ queue = <<>> /\ wpc = "none" /\ msg = Header /\ pc = "header"
        /\ ~drop_until_keyframe /\ ~overflow_flag
    BY DEF Init, FifoInit, Out!Init
  <2>3. Hand = {} /\ Line = {}
    BY <2>2, EmptyNumbers DEF Hand, Line
  <2> QED BY <2>1, <2>2, <2>3, EmptyNumbers
          DEF OrderInv, Conversions, Converted, NoDrop, Ordered, Below
<1>2. OrderInv /\ [Next]_vars => OrderInv'
  BY TypesStep, InputOrderStep, ConversionsStep, NoDropStep, OrderedStep DEF OrderInv, TypeInv
<1> QED BY <1>1, <1>2, PTL DEF Spec

LEMMA KeptInvariance ==
  ASSUME EOF \notin Faults
  PROVE  Spec => [](Endings /\ Kept)
<1>1. Init => Endings /\ Kept
  <2> SUFFICES ASSUME Init PROVE Endings /\ Kept
    OBVIOUS
  <2>1. /\ out_err_send = NoError /\ out_err_recv = NoError /\ wpc = "none"
        /\ pc = "header" /\ ~complete /\ inq = <<>> /\ ipc = "none" /\ nread = 0
    BY DEF Init, FifoInit, Out!Init, InputInit, In!Init
  <2>2. Passed = 0
    <3>1. Len(inq) = 0
      BY <2>1, EmptySeq
    <3>2. Sent = 0
      BY <2>1 DEF Sent
    <3>3. Taken = 0
      BY <3>1, <3>2 DEF Taken
    <3> QED BY <2>1, <3>3 DEF Passed
  <2> QED BY <2>1, <2>2 DEF Endings, Kept
<1>2. OrderInv /\ Endings /\ Kept /\ [Next]_vars => (Endings /\ Kept)'
  BY EndingsStep, KeptStep DEF OrderInv
<1> QED BY <1>1, <1>2, OrderInvariance, PTL DEF Spec

\* A packet of the output is an event whose number is not 0.
LEMMA WrittenPackets ==
  ASSUME Types
  PROVE  /\ \A k \in DOMAIN output : k \in Written <=> output[k].pkt # 0
         /\ Numbers(output) = {output[k].pkt : k \in Written}
<1>1. \A k \in DOMAIN output : output[k] \in OutEvents
  <2>1. output \in Seq(OutEvents)
    BY DEF Types, WriterTypes
  <2> QED BY <2>1, LenProperties, ElementOfSeq
<1>2. \A k \in DOMAIN output : k \in Written <=> output[k].pkt # 0
  <2> SUFFICES ASSUME NEW k \in DOMAIN output
               PROVE  output[k].ev = "packet" <=> output[k].pkt # 0
    BY DEF Written
  <2> QED BY <1>1, PktsAreNumbers DEF OutEvents
<1>3. Written \subseteq DOMAIN output
  BY DEF Written
<1> QED BY <1>2, <1>3 DEF Numbers

\* The part of OutputFaithful on the order, whatever fails: the writer takes the
\* packets from the queue in the order of the input and, when it tries one again
\* (fifo.c:366), puts none before it; and without recovery it converts the
\* timestamps of each once (fifo.c:204).
PacketsInOrder ==
  /\ \A k \in Written : output[k].scaled = 1 \/ fifo.attempt_recovery
  /\ \A j, k \in Written : j < k => output[j].pkt < output[k].pkt

LEMMA OrderedOutput == OrderInv => PacketsInOrder
<1> SUFFICES ASSUME OrderInv PROVE PacketsInOrder
  OBVIOUS
<1>1. \A k \in DOMAIN output : k \in Written <=> output[k].pkt # 0
  BY WrittenPackets DEF OrderInv, TypeInv
<1>2. Written \subseteq DOMAIN output
  BY DEF Written
<1> QED BY <1>1, <1>2 DEF OrderInv, Conversions, Converted, Ordered, Rising, PacketsInOrder

\* Each packet at most once and in the order of the input, for every error, the end
\* of file too (fifo.c:179-210, 353-409).
THEOREM OutputInOrder == Spec => []PacketsInOrder
BY OrderInvariance, OrderedOutput, PTL

\* Unless the underlying muxer reports the end of file as an error, which the client
\* could not tell from the end of the packets (fifo.c:433, 462), the output is
\* faithful: its files are whole, its packets in order and, where nothing may be
\* dropped and neither side saw an error, all there.
THEOREM OutputIsFaithful ==
  ASSUME EOF \notin Faults
  PROVE  Spec => []OutputFaithful
<1>1. OrderInv /\ Endings /\ Kept => OutputFaithful
  <2> SUFFICES ASSUME OrderInv, Endings, Kept PROVE OutputFaithful
    OBVIOUS
  <2>1. Files
    BY DEF OrderInv, TypeInv, OutputFiles, Waited, Files, Whole, IsOpen
  <2>2. PacketsInOrder
    BY OrderedOutput
  <2>3. ASSUME pc = "closed", complete, ~fifo.drop_pkts_on_overflow, out_err_send = EOF
        PROVE  {output[k].pkt : k \in Written} = Pkts
    <3>1. wpc = "dead" /\ queue = <<>>
      BY <2>3 DEF OrderInv, TypeInv, Waited, Endings
    <3>2. Fine /\ Hand = {} /\ Numbers(queue) = {}
      BY <2>3, <3>1, EmptyNumbers DEF Fine, Hand
    <3>3. Pkts \subseteq Numbers(output)
      BY <2>3, <3>2 DEF Kept, Line
    <3>4. Numbers(output) = {output[k].pkt : k \in Written}
      BY WrittenPackets DEF OrderInv, TypeInv
    <3>5. Numbers(output) \subseteq Pkts
      <4>1. output \in Seq(OutEvents)
        BY DEF OrderInv, TypeInv, Types, WriterTypes
      <4>2. \A k \in DOMAIN output : output[k] \in OutEvents
        BY <4>1, LenProperties, ElementOfSeq
      <4>3. \A x \in OutEvents : x.pkt # 0 => x.pkt \in Pkts
        BY DEF OutEvents
      <4> QED BY <4>2, <4>3 DEF Numbers
    <3> QED BY <3>3, <3>4, <3>5
  <2> QED BY <2>1, <2>2, <2>3 DEF OutputFaithful, PacketsInOrder
<1> QED BY <1>1, OrderInvariance, KeptInvariance, PTL
=============================================================================
