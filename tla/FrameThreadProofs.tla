------------------------- MODULE FrameThreadProofs -------------------------
(***************************************************************************)
(* FrameThread, for every number of threads and packets, every kind of     *)
(* codec and every choice the codec and its callbacks make.                *)
(***************************************************************************)
EXTENDS FrameThread, TLAPS

-----------------------------------------------------------------------------
(* Control: which thread is where, and who has which lock.                 *)

States == {"INPUT_READY", "SETTING_UP", "GET_BUFFER", "GET_FORMAT", "SETUP_FINISHED"}
Numbers == Packets \cup {0}
Contexts == [seen : Numbers, held : Numbers, ref : Numbers]
PCs == {"wait", "decode", "ff_get_format", "get_format", "ff_get_buffer", "get_buffer",
        "unlock_buffer", "setup", "await", "report", "return", "finish_setup", "async_lock",
        "stash", "setup_finished", "decoded", "async_unlock", "ready", "exit"}
ThreadType ==
  [state : States, avpkt : Numbers, ctx : Contexts, hwaccel : Hwaccel,
   hwaccel_serializing : BOOLEAN, async_serializing : BOOLEAN, frame : Numbers,
   got_frame : BOOLEAN, failed : BOOLEAN, outcome : {"pic", "none", "err"}, out : Numbers,
   await : Numbers, back : PCs, die : BOOLEAN]

Flags == /\ err \in BOOLEAN /\ draining \in BOOLEAN /\ draining_done \in BOOLEAN
         /\ closing \in BOOLEAN /\ delaying \in BOOLEAN /\ async_lock \in BOOLEAN

Types ==
  /\ kind \in Kinds
  /\ mpc \in {"user", "submit", "update", "transfer", "serve", "submitted", "fetch", "lock",
              "park", "kill", "join", "end"}
  /\ avpkt \in Numbers /\ got \in Numbers
  /\ i \in Nat /\ i <= ThreadCount
  /\ next_packet \in Nat /\ 1 <= next_packet /\ next_packet <= MaxPackets + 1
  /\ flushes \in Nat /\ flushes <= MaxFlushes /\ failures \in Nat /\ failures <= MaxFailures
  /\ prev_thread \in Threads \cup {Main} /\ hwaccel_mutex \in Threads \cup {Main}
  /\ buffer_mutex \in Threads \cup {Main}
  /\ next_decoding \in Nat /\ next_decoding <= ThreadCount /\ next_finished \in Threads
  /\ stash_hwaccel \in Hwaccel /\ hwaccel_now \in Hwaccel
  /\ asleep \in SUBSET (Threads \cup {Main})
  /\ owner \in [Packets -> Threads \cup {Main}]
  /\ progress \in SUBSET Packets /\ taken \in SUBSET Packets
  /\ made \in SUBSET Packets /\ returned \in SUBSET Packets
  /\ p \in [Threads -> ThreadType] /\ wpc \in [Threads -> PCs]

\* A thread at pc, with its context x.
SettingUp == {"SETTING_UP", "GET_BUFFER", "GET_FORMAT"}
FinishingSetup == {"finish_setup", "async_lock", "stash", "setup_finished"}

StateAt(x, pc) ==
  /\ pc = "wait" => x.state \in {"INPUT_READY", "SETTING_UP"}
  /\ pc = "exit" => x.state = "INPUT_READY"
  /\ x.state = "INPUT_READY" => pc \in {"wait", "exit"} /\ x.hwaccel = "none"
  /\ pc = "get_format" => x.state \in {"SETTING_UP", "GET_FORMAT"}
  /\ pc = "get_buffer" => x.state \in {"SETTING_UP", "GET_BUFFER"}
  /\ x.state = "GET_FORMAT" => pc = "get_format"
  /\ x.state = "GET_BUFFER" => pc = "get_buffer"
  /\ pc \in {"get_format", "get_buffer"} => ~kind.safe
  /\ pc \in {"ff_get_format", "get_format"} => kind.update
  /\ pc \in FinishingSetup => x.state = "SETTING_UP"
  /\ pc \in {"decoded", "async_unlock", "ready"} => x.state = "SETUP_FINISHED"
  /\ pc \in {"decode", "ff_get_format", "ff_get_buffer", "unlock_buffer", "setup"} /\ kind.update
       => x.state = "SETTING_UP"
  /\ pc \in {"decode", "ff_get_buffer"} /\ ~kind.safe => x.state = "SETTING_UP"

BackAt(x, pc) ==
  pc \in FinishingSetup =>
    /\ x.back \in {"decode", "unlock_buffer", "await", "decoded", "ready"}
    /\ x.back = "decode" => ~kind.update /\ kind.safe /\ x.outcome = "none"
    /\ x.back = "unlock_buffer" => ~kind.update /\ ~kind.safe /\ x.outcome # "none"
    /\ x.back = "decoded" => x.hwaccel_serializing /\ x.hwaccel = "none"
    /\ x.back = "ready" => ~x.hwaccel_serializing /\ x.hwaccel = "none"

LocksAt(x, pc) ==
  /\ x.hwaccel \in {"none", kind.hw}
  /\ ~kind.update => ~x.hwaccel_serializing /\ ~x.async_serializing
  /\ pc \in {"wait", "decode", "async_unlock", "ready", "exit"} => ~x.hwaccel_serializing
  /\ pc \in {"async_unlock", "ready"} => x.hwaccel = "none"
  /\ pc = "decoded" => x.hwaccel_serializing
  /\ pc \in {"async_lock", "stash", "setup_finished"} /\ x.hwaccel # "none"
       => x.hwaccel_serializing
  /\ pc \in {"await", "report", "return"} /\ x.hwaccel # "none"
       => x.hwaccel_serializing /\ x.state = "SETUP_FINISHED"
  /\ pc = "async_unlock" => x.async_serializing
  /\ pc = "async_lock" => x.hwaccel = "async_unsafe"
  /\ x.async_serializing =>
       \/ pc = "async_unlock"
       \/ /\ x.hwaccel = "async_unsafe"
          /\ pc \in {"stash", "setup_finished", "await", "report", "return", "decoded"}
  /\ pc \in {"stash", "setup_finished", "await", "report", "return", "decoded"}
     /\ x.hwaccel = "async_unsafe" => x.async_serializing

OutcomeAt(x, pc) ==
  /\ x.outcome # "none" => x.avpkt # 0
  /\ pc \in {"wait", "exit", "decode"} => x.outcome = "none"
  /\ pc \in {"ff_get_format", "get_format", "ff_get_buffer", "get_buffer", "unlock_buffer"}
       => x.outcome # "none"
  /\ pc = "report" => x.outcome = "pic"

ThreadAt(x, pc) == StateAt(x, pc) /\ BackAt(x, pc) /\ LocksAt(x, pc) /\ OutcomeAt(x, pc)

\* The thread of the newest packet: only it can be setting up.
Submitting == mpc = "serve" \/ (mpc = "submitted" /\ Submits(avpkt))
Current == IF Submitting THEN next_decoding ELSE prev_thread
Closing == {"kill", "join", "end"}

OneSetup ==
  /\ \A t \in Threads : p[t].state \in SettingUp =>
       t = Current /\ mpc # "transfer" /\ (~kind.safe => mpc = "serve")
  /\ mpc = "update" => prev_thread # Main

\* How many threads after thread f it is the turn of t.
Turn(t, f) == IF t >= f THEN t - f ELSE t - f + ThreadCount

\* Nothing is left of a packet in it.
Clean(t) == /\ p[t].state = "INPUT_READY" /\ p[t].frame = 0 /\ ~p[t].got_frame
            /\ ~p[t].failed

\* The packet of the call, and where the call is in the ring.
Calling == {"submit", "update", "transfer", "serve", "submitted"}
Call ==
  /\ mpc \in Calling => i = next_finished
  /\ mpc \in {"submit", "update", "transfer", "serve"} => Submits(avpkt)
  /\ mpc \in Calling \cup {"fetch", "lock"} => (avpkt = 0 <=> draining)
  /\ mpc = "fetch" => i \in Threads /\ (delaying => avpkt = 0)
  /\ delaying /\ ~draining => next_finished = 0
  /\ prev_thread = Main => next_decoding = 0
  /\ prev_thread = Main /\ mpc = "fetch" => ~Submits(avpkt)
  /\ prev_thread # Main =>
       \/ next_decoding = prev_thread + 1
       \/ next_decoding = 0 /\ prev_thread = ThreadCount - 1
  /\ next_decoding = ThreadCount => mpc = "fetch" /\ Submits(avpkt)

\* The threads with a packet or a result are those from next_finished to next_decoding.
InTurn ==
  /\ mpc \in Calling \cup {"user", "lock"} =>
       \A t \in Threads : ~Clean(t) =>
         \/ Turn(t, next_finished) < Turn(next_decoding, next_finished)
         \/ t = next_decoding /\ Submitting
  /\ mpc = "fetch" =>
       \A t \in Threads : ~Clean(t) =>
         /\ Turn(i, next_finished) <= Turn(t, next_finished)
         /\ IF Submits(avpkt)
            THEN Turn(t, next_finished) <= Turn(prev_thread, next_finished)
            ELSE Turn(t, next_finished) < Turn(next_decoding, next_finished)

\* park_frame_worker_threads has waited for the threads before i.
Parked ==
  /\ mpc = "park" => \A t \in Threads : t < i => p[t].state = "INPUT_READY"
  /\ mpc \in Closing => \A t \in Threads : p[t].state = "INPUT_READY"
  /\ mpc = "join" => i < ThreadCount
  /\ \A t \in Threads : p[t].die \/ wpc[t] = "exit" => mpc \in Closing

\* Of hwaccel_mutex and async_lock, which the caller has outside of the decoder.
Outside == Closing \cup {"user"}
Locks ==
  /\ \A t \in Threads : p[t].hwaccel_serializing <=> hwaccel_mutex = t
  /\ mpc \in Outside => async_lock
  /\ \A t \in Threads : p[t].async_serializing =>
       /\ async_lock /\ mpc \notin Outside
       /\ \A u \in Threads : p[u].async_serializing => u = t

\* Until a thread stashes it, the hwaccel chosen last is with the thread that sets up.
HasHwaccel(t) == p[t].state \in SettingUp /\ wpc[t] # "setup_finished"
Token ==
  /\ stash_hwaccel \in {"none", kind.hw} /\ hwaccel_now \in {"none", kind.hw}
  /\ \A t \in Threads : HasHwaccel(t) => /\ stash_hwaccel = "none"
                                         /\ p[t].hwaccel = hwaccel_now
  /\ mpc # "end" /\ (\A t \in Threads : ~HasHwaccel(t)) => stash_hwaccel = hwaccel_now

Control == /\ Flags /\ Types /\ OneSetup /\ Call /\ InTurn /\ Parked /\ Locks /\ Token
           /\ \A t \in Threads : ThreadAt(p[t], wpc[t])

-----------------------------------------------------------------------------
(* The contexts.                                                           *)

Newer(s, S) == s \in S \cup {0} /\ \A n \in S : n <= s

\* The codec has not updated its context for the packet of the thread.
BeforeSetup(t) ==
  /\ p[t].state # "INPUT_READY"
  /\ \/ wpc[t] \in {"wait", "decode", "ff_get_format", "get_format", "ff_get_buffer",
                    "get_buffer", "unlock_buffer", "setup"}
     \/ wpc[t] \in FinishingSetup /\ p[t].back \in {"decode", "unlock_buffer"}

\* The thread with the newest context.
Front == IF Current = Main THEN 0 ELSE Current

Seen ==
  /\ \A n \in taken : n < next_packet
  /\ mpc \in {"submit", "update", "transfer"} /\ avpkt # 0 =>
       avpkt < next_packet /\ \A n \in taken : n < avpkt
  /\ \A t \in Threads : BeforeSetup(t) => p[t].avpkt \in taken \cup {0}
  /\ kind.update /\ mpc \notin Closing =>
       /\ ~BeforeSetup(Front) => Newer(p[Front].ctx.seen, taken)
       /\ mpc = "transfer" => p[next_decoding].ctx = p[Front].ctx
       /\ \A t \in Threads : BeforeSetup(t) =>
            /\ p[t].avpkt # 0 => \A n \in taken : n <= p[t].avpkt
            /\ Newer(p[t].ctx.seen, taken \ {p[t].avpkt})

-----------------------------------------------------------------------------
(* The frames.                                                             *)

\* codec->decode has its result, which is to be frame of the thread; and the frame
\* of the packet is not complete.
Decoding(t) == \/ wpc[t] \in {"await", "report", "return"}
               \/ wpc[t] \in FinishingSetup /\ p[t].back = "await"
Incomplete(t) == Decoding(t) /\ wpc[t] # "return" /\ p[t].outcome = "pic"

Result(t) == IF Decoding(t) THEN p[t].out ELSE p[t].frame

\* The frame a thread has, or may still make.
Mark(t) == IF BeforeSetup(t) THEN p[t].avpkt ELSE Result(t)

Held == p[Front].ctx.held

Made ==
  /\ returned \subseteq made \cap progress /\ made \subseteq taken
  /\ mpc # "lock" => got = 0 /\ ~err
  /\ got \in made \cup {0} /\ Held \in made \cup {0}
  /\ \A t \in Threads :
       /\ ~BeforeSetup(t) => Result(t) \in made \cup {0}
       /\ ~kind.reorder => p[t].ctx.held = 0
       /\ Incomplete(t) => p[t].avpkt \in made

Line ==
  \A t \in Threads :
    /\ BeforeSetup(t) => p[t].avpkt \notin made
    /\ ~BeforeSetup(t) /\ ~Decoding(t) => (p[t].got_frame <=> p[t].frame # 0)

\* The frames are in the order of the turns, between the returned ones and the one that
\* is held back.
Ordered ==
  /\ \A t, u \in Threads :
       Mark(t) # 0 /\ Mark(u) # 0 /\ Turn(t, next_finished) < Turn(u, next_finished)
         => Mark(t) < Mark(u)
  /\ \A t \in Threads : Mark(t) # 0 =>
       /\ got < Mark(t)
       /\ \A g \in returned : g < Mark(t)
       /\ Held # 0 => (IF BeforeSetup(t) THEN Held < Mark(t) ELSE Mark(t) < Held)
  /\ Held # 0 => got < Held /\ \A g \in returned : g < Held
  /\ got # 0 => \A g \in returned : g < got

\* None is missing.
Known(f) == \/ f \in returned \cup {got, Held}
            \/ \E t \in Threads : ~BeforeSetup(t) /\ Result(t) = f

AllDone == made = returned /\ \A t \in Threads : Clean(t)

Kept ==
  /\ \A f \in made : Known(f)
  /\ Current # Main /\ ~BeforeSetup(Current) /\ p[Current].avpkt = 0 => Held = 0
  /\ Submitting \/ (mpc = "fetch" /\ Submits(avpkt)) => p[Current].avpkt = avpkt
  /\ draining_done => draining /\ mpc = "user" /\ AllDone
  /\ mpc = "lock" /\ draining /\ got = 0 /\ ~err => AllDone

\* The thread that decodes a frame is not after the one that has it.
Complete ==
  /\ got \in progress \cup {0}
  /\ \A f \in made : f \in progress \/ \E t \in Threads : Incomplete(t) /\ p[t].avpkt = f
  /\ \A t, u \in Threads :
       Incomplete(t) /\ ~BeforeSetup(u) /\ Result(u) = p[t].avpkt
         => Turn(t, next_finished) <= Turn(u, next_finished)

Live == mpc \notin {"park"} \cup Closing
Frames == /\ mpc \notin Closing => Made
          /\ Live => Line /\ Ordered /\ Kept /\ Complete

-----------------------------------------------------------------------------
(* Constants, and what a step of a thread leaves alone.                    *)

LEMMA Sizes ==
  /\ ThreadCount \in Nat /\ ThreadCount >= 2 /\ Threads = 0 .. ThreadCount - 1
  /\ Main = -1 /\ Main \notin Threads /\ 0 \in Threads
  /\ MaxPackets \in Nat /\ Packets = 1 .. MaxPackets /\ 0 \notin Packets
  /\ Numbers \subseteq Nat /\ MaxFlushes \in Nat /\ MaxFailures \in Nat
  BY CountAssumption, BoundsAssumption DEF Threads, Main, Packets, Numbers

LEMMA KindFacts ==
  ASSUME kind \in Kinds
  PROVE  /\ kind.update \in BOOLEAN /\ kind.safe \in BOOLEAN /\ kind.cap_delay \in BOOLEAN
         /\ kind.reorder \in BOOLEAN /\ kind.ffv1 \in BOOLEAN /\ kind.hw \in Hwaccel
         /\ kind.hw # "none" => kind.update
         /\ kind.reorder => kind.update /\ kind.cap_delay
  BY KindsAssumption

LEMMA FieldTypes ==
  ASSUME NEW x \in ThreadType
  PROVE  /\ x.state \in States /\ x.avpkt \in Numbers /\ x.ctx \in Contexts
         /\ x.hwaccel \in Hwaccel /\ x.hwaccel_serializing \in BOOLEAN
         /\ x.async_serializing \in BOOLEAN /\ x.frame \in Numbers /\ x.got_frame \in BOOLEAN
         /\ x.failed \in BOOLEAN /\ x.outcome \in {"pic", "none", "err"}
         /\ x.out \in Numbers /\ x.await \in Numbers /\ x.back \in PCs /\ x.die \in BOOLEAN
         /\ x.ctx.seen \in Numbers /\ x.ctx.held \in Numbers /\ x.ctx.ref \in Numbers
  BY DEF ThreadType, Contexts

\* Thread t, which has a packet, goes on.
Steps(t) ==
  /\ p' \in [Threads -> ThreadType] /\ wpc' \in [Threads -> PCs]
  /\ \A u \in Threads \ {t} : p'[u] = p[u] /\ wpc'[u] = wpc[u]
  /\ p'[t].die = p[t].die /\ p'[t].avpkt = p[t].avpkt
  /\ p[t].state # "INPUT_READY" /\ wpc'[t] # "exit"
  /\ p'[t].state \in SettingUp => p[t].state \in SettingUp
  /\ ThreadAt(p[t], wpc[t])'
  /\ UNCHANGED <<kind, mpc, avpkt, i, got, err, next_packet, draining, draining_done,
                 closing, flushes, failures, prev_thread, next_decoding, next_finished,
                 delaying>>

LEMMA WorkerSteps ==
  ASSUME Control, NEW t \in Threads, WorkerStep(t), ~Die(t)
  PROVE  Steps(t)
  <1>1. /\ p \in [Threads -> ThreadType] /\ wpc \in [Threads -> PCs] /\ p[t] \in ThreadType
        /\ wpc[t] \in PCs /\ kind \in Kinds /\ ThreadAt(p[t], wpc[t])
    BY DEF Control, Types
  <1> USE DEF Steps, ThreadAt, StateAt, BackAt, LocksAt, OutcomeAt, SettingUp, FinishingSetup,
              Goto, kept, call, client, fctx
  <1>20. CASE Start(t)
    <2>1. CASE ~kind.update /\ kind.safe
      BY <1>1, <1>20, <2>1, FieldTypes, KindFacts DEF Start, PCs, ThreadType, States
    <2>2. CASE ~(~kind.update /\ kind.safe)
      BY <1>1, <1>20, <2>2, FieldTypes, KindFacts DEF Start, PCs, States
    <2> QED
      BY <2>1, <2>2
  <1>2. CASE Decode(t)
    <2>0. PICK b \in BOOLEAN : b = (p[t].hwaccel # "none")
      OBVIOUS
    <2>1. PICK outcome \in {"pic", "none", "err"} :
            /\ p[t].avpkt = 0 => outcome = "none"
            /\ p' = [p EXCEPT ![t].hwaccel_serializing = b,
                              ![t].frame = 0, ![t].got_frame = FALSE,
                              ![t].outcome = outcome]
            /\ \/ outcome = "pic" /\ kind.hw # "none" /\ Goto(t, "ff_get_format")
               \/ Goto(t, IF outcome = "pic" THEN "ff_get_buffer" ELSE "setup")
      BY <1>2, <2>0 DEF Decode
    <2>2. /\ p' \in [Threads -> ThreadType]
          /\ \A u \in Threads \ {t} : p'[u] = p[u]
          /\ p'[t] = [p[t] EXCEPT !.hwaccel_serializing = b,
                              !.frame = 0, !.got_frame = FALSE,
                              !.outcome = outcome]
      <3>1. p' = [p EXCEPT ![t] = [p[t] EXCEPT !.hwaccel_serializing = b,
                              !.frame = 0, !.got_frame = FALSE, !.outcome = outcome]]
        BY <1>1, <2>1
      <3>2. [p[t] EXCEPT !.hwaccel_serializing = b, !.frame = 0, !.got_frame = FALSE,
                         !.outcome = outcome] \in ThreadType
        BY <1>1, FieldTypes DEF ThreadType, Numbers
      <3> QED
        BY <1>1, <3>1, <3>2
    <2>3. \E pc \in {"ff_get_format", "ff_get_buffer", "setup"} :
            /\ wpc' = [wpc EXCEPT ![t] = pc]
            /\ pc # "setup" => outcome = "pic"
            /\ pc = "ff_get_format" => kind.hw # "none"
      BY <2>1
    <2>4. /\ wpc' \in [Threads -> PCs]
          /\ \A u \in Threads \ {t} : wpc'[u] = wpc[u]
          /\ wpc'[t] \in {"ff_get_format", "ff_get_buffer", "setup"}
          /\ wpc'[t] # "setup" => outcome = "pic"
          /\ wpc'[t] = "ff_get_format" => kind.hw # "none"
      BY <1>1, <2>3 DEF PCs
    <2>5. /\ wpc[t] = "decode"
          /\ UNCHANGED <<kept, async_lock, stash_hwaccel, buffer_mutex, asleep, frames, history>>
      BY <1>2 DEF Decode
    <2>6. ThreadAt(p[t], wpc[t])'
      BY <1>1, <2>0, <2>1, <2>2, <2>4, <2>5, FieldTypes, KindFacts
    <2> QED
      BY <1>1, <2>2, <2>4, <2>5, <2>6, FieldTypes, KindFacts
  <1>3. CASE GetFormat(t)
    <2>1. CASE kind.safe
      <3>1. PICK hw \in {"none", kind.hw} : p' = [p EXCEPT ![t].hwaccel = hw]
        BY <1>3, <2>1 DEF GetFormat
      <3>2. /\ p' \in [Threads -> ThreadType]
            /\ \A u \in Threads \ {t} : p'[u] = p[u]
            /\ p'[t] = [p[t] EXCEPT !.hwaccel = hw]
        BY <1>1, <3>1, FieldTypes, KindFacts DEF ThreadType, Hwaccel
      <3> QED
        BY <1>1, <1>3, <2>1, <3>2, FieldTypes, KindFacts DEF GetFormat, PCs
    <2>2. CASE ~kind.safe
      BY <1>1, <1>3, <2>2, FieldTypes, KindFacts DEF GetFormat, PCs, ThreadType, States
    <2> QED
      BY <2>1, <2>2
  <1>4. CASE GetBuffer(t)
    BY <1>1, <1>4, FieldTypes, KindFacts, SMTT(60) DEF GetBuffer, PCs, ThreadType, Numbers, States
  <1>5. CASE AwaitReply(t)
    BY <1>1, <1>5, FieldTypes, KindFacts DEF AwaitReply
  <1>6. CASE FormatReply(t)
    BY <1>1, <1>6, FieldTypes, KindFacts DEF FormatReply, PCs
  <1>7. CASE BufferReply(t)
    <2>1. /\ p' \in [Threads -> ThreadType]
          /\ \A u \in Threads \ {t} : p'[u] = p[u]
          /\ p'[t] = [p[t] EXCEPT !.outcome = IF p[t].failed THEN "err" ELSE "pic",
                                  !.back = "unlock_buffer"]
      BY <1>1, <1>7, FieldTypes DEF BufferReply, ThreadType, PCs
    <2>2. CASE kind.update
      BY <1>1, <1>7, <2>1, <2>2, FieldTypes, KindFacts DEF BufferReply, PCs
    <2>3. CASE ~kind.update
      BY <1>1, <1>7, <2>1, <2>3, FieldTypes, KindFacts DEF BufferReply, PCs
    <2> QED
      BY <2>2, <2>3
  <1>8. CASE UnlockBuffer(t)
    BY <1>1, <1>8, FieldTypes, KindFacts DEF UnlockBuffer, PCs
  <1>9. CASE Setup(t)
    <2> DEFINE pic  == p[t].outcome = "pic"
               swap == kind.reorder /\ (pic \/ p[t].avpkt = 0)
    <2>0. /\ p[t].ctx \in Contexts /\ p[t].avpkt \in Numbers /\ 0 \in Numbers
          /\ p[t].ctx.ref \in Numbers /\ p[t].ctx.held \in Numbers /\ p[t].ctx.seen \in Numbers
      BY <1>1, FieldTypes DEF Numbers
    <2>10. PICK c \in Contexts :
            c = [seen |-> IF p[t].avpkt = 0 THEN p[t].ctx.seen ELSE p[t].avpkt,
                 held |-> IF swap THEN p[t].avpkt ELSE p[t].ctx.held,
                 ref  |-> IF pic THEN p[t].avpkt ELSE p[t].ctx.ref]
      BY <2>0 DEF Contexts
    <2>11. PICK out \in Numbers : out = IF swap THEN p[t].ctx.held
                                      ELSE IF pic /\ ~kind.reorder THEN p[t].avpkt ELSE 0
      BY <2>0
    <2>1. PICK await \in Numbers, finish \in BOOLEAN :
            /\ p' = [p EXCEPT ![t].ctx = c, ![t].out = out, ![t].await = await,
                              ![t].back = "await"]
            /\ kind.update /\ p[t].hwaccel # "none" => finish
            /\ ~kind.update => ~finish
            /\ Goto(t, IF finish THEN "finish_setup" ELSE "await")
      <3>1. PICK await \in {0} \cup (IF kind.update /\ pic THEN {p[t].ctx.ref} ELSE {}),
                 finish \in IF ~kind.update THEN {FALSE}
                            ELSE IF p[t].hwaccel # "none" THEN {TRUE} ELSE BOOLEAN :
              /\ p' = [p EXCEPT
                   ![t].ctx = [seen |-> IF p[t].avpkt = 0 THEN p[t].ctx.seen ELSE p[t].avpkt,
                               held |-> IF swap THEN p[t].avpkt ELSE p[t].ctx.held,
                               ref  |-> IF pic THEN p[t].avpkt ELSE p[t].ctx.ref],
                   ![t].out = IF swap THEN p[t].ctx.held
                              ELSE IF pic /\ ~kind.reorder THEN p[t].avpkt ELSE 0,
                   ![t].await = await,
                   ![t].back = "await"]
              /\ Goto(t, IF finish THEN "finish_setup" ELSE "await")
        BY <1>9 DEF Setup
      <3>2. await \in Numbers /\ finish \in BOOLEAN
        BY <2>0, <3>1
      <3>3. /\ kind.update /\ p[t].hwaccel # "none" => finish
            /\ ~kind.update => ~finish
        BY <3>1
      <3>4. p' = [p EXCEPT ![t].ctx = c, ![t].out = out, ![t].await = await,
                           ![t].back = "await"]
        BY <3>1, <2>10, <2>11
      <3> QED
        BY <3>1, <3>2, <3>3, <3>4
    <2>2. /\ p' \in [Threads -> ThreadType]
          /\ \A u \in Threads \ {t} : p'[u] = p[u]
          /\ p'[t] = [p[t] EXCEPT !.ctx = c, !.out = out, !.await = await, !.back = "await"]
      BY ZenonT(30), <1>1, <2>1, FieldTypes DEF ThreadType, PCs
    <2>3. /\ wpc[t] = "setup"
          /\ UNCHANGED kept
      BY <1>9 DEF Setup
    <2>4. /\ wpc' \in [Threads -> PCs] /\ \A u \in Threads \ {t} : wpc'[u] = wpc[u]
          /\ wpc'[t] = IF finish THEN "finish_setup" ELSE "await"
      BY <1>1, <2>1 DEF PCs
    <2>5. ThreadAt(p[t], wpc[t])'
      BY <1>1, <2>1, <2>2, <2>3, <2>4, FieldTypes, KindFacts
    <2> QED
      BY <1>1, <2>2, <2>3, <2>4, <2>5, FieldTypes, KindFacts
  <1>10. CASE Await(t)
    BY <1>1, <1>10, FieldTypes, KindFacts DEF Await, PCs
  <1>11. CASE Report(t)
    BY <1>1, <1>11, FieldTypes, KindFacts DEF Report, PCs
  <1>12. CASE DecodeReturns(t)
    <2>1. PICK g \in BOOLEAN, f \in BOOLEAN :
            /\ p' = [p EXCEPT ![t].frame = p[t].out, ![t].got_frame = g,
                              ![t].failed = f, ![t].back = AfterDecode(t)]
      BY <1>12 DEF DecodeReturns
    <2>2. AfterDecode(t) \in {"decoded", "ready"}
      BY DEF AfterDecode
    <2>3. /\ p' \in [Threads -> ThreadType]
          /\ \A u \in Threads \ {t} : p'[u] = p[u]
          /\ p'[t] = [p[t] EXCEPT !.frame = p[t].out, !.got_frame = g,
                                  !.failed = f, !.back = AfterDecode(t)]
      BY ZenonT(30), <1>1, <2>1, <2>2, FieldTypes DEF ThreadType, PCs
    <2>4. /\ wpc[t] = "return" /\ UNCHANGED kept
          /\ wpc' = [wpc EXCEPT ![t] = IF p[t].state = "SETTING_UP" THEN "finish_setup"
                                       ELSE AfterDecode(t)]
      BY <1>12 DEF DecodeReturns
    <2>5. /\ wpc' \in [Threads -> PCs] /\ \A u \in Threads \ {t} : wpc'[u] = wpc[u]
          /\ wpc'[t] = IF p[t].state = "SETTING_UP" THEN "finish_setup" ELSE AfterDecode(t)
      BY <1>1, <2>2, <2>4 DEF PCs
    <2>6. ThreadAt(p[t], wpc[t])'
      BY <1>1, <2>3, <2>4, <2>5, FieldTypes, KindFacts DEF AfterDecode, States
    <2> QED
      BY <1>1, <2>3, <2>4, <2>5, <2>6, FieldTypes, KindFacts
  <1>13. CASE Decoded(t)
    BY <1>1, <1>13, FieldTypes, KindFacts, SMTT(60) DEF Decoded, PCs, ThreadType, Hwaccel
  <1>14. CASE AsyncUnlock(t)
    <2>1. /\ p' \in [Threads -> ThreadType]
          /\ \A u \in Threads \ {t} : p'[u] = p[u]
          /\ p'[t] = [p[t] EXCEPT !.async_serializing = FALSE]
      BY ZenonT(30), <1>1, <1>14, FieldTypes DEF AsyncUnlock, ThreadType, PCs, States, Numbers
    <2>2. /\ wpc' \in [Threads -> PCs] /\ \A u \in Threads \ {t} : wpc'[u] = wpc[u]
          /\ wpc'[t] = "ready" /\ wpc[t] = "async_unlock"
          /\ UNCHANGED kept
      BY <1>1, <1>14 DEF AsyncUnlock, PCs
    <2> QED
      BY <1>1, <2>1, <2>2, FieldTypes, KindFacts
  <1>15. CASE Ready(t)
    <2>1. /\ p' \in [Threads -> ThreadType]
          /\ \A u \in Threads \ {t} : p'[u] = p[u]
          /\ p'[t] = [p[t] EXCEPT !.state = "INPUT_READY", !.outcome = "none",
                                  !.out = 0, !.await = 0, !.back = "wait"]
      <3>1. p' = [p EXCEPT ![t] = [p[t] EXCEPT !.state = "INPUT_READY", !.outcome = "none",
                                              !.out = 0, !.await = 0, !.back = "wait"]]
        BY <1>1, <1>15 DEF Ready
      <3>2. [p[t] EXCEPT !.state = "INPUT_READY", !.outcome = "none",
                         !.out = 0, !.await = 0, !.back = "wait"] \in ThreadType
        BY ZenonT(30), <1>1, FieldTypes DEF ThreadType, Numbers, States, PCs
      <3> QED
        BY <1>1, <3>1, <3>2
    <2>2. /\ wpc' \in [Threads -> PCs] /\ \A u \in Threads \ {t} : wpc'[u] = wpc[u]
          /\ wpc'[t] = "wait" /\ wpc[t] = "ready"
          /\ UNCHANGED kept
      BY <1>1, <1>15 DEF Ready, PCs
    <2> QED
      BY <1>1, <2>1, <2>2, FieldTypes, KindFacts
  <1>16. CASE FinishSetup(t)
    BY <1>1, <1>16, FieldTypes, KindFacts, SMTT(60) DEF FinishSetup, PCs, ThreadType
  <1>17. CASE AsyncLock(t)
    <2>1. /\ p' \in [Threads -> ThreadType]
          /\ \A u \in Threads \ {t} : p'[u] = p[u]
          /\ p'[t] = [p[t] EXCEPT !.async_serializing = TRUE]
      BY ZenonT(30), <1>1, <1>17, FieldTypes DEF AsyncLock, ThreadType, PCs, States, Numbers
    <2>2. /\ wpc' \in [Threads -> PCs] /\ \A u \in Threads \ {t} : wpc'[u] = wpc[u]
          /\ wpc'[t] = "stash" /\ wpc[t] = "async_lock"
          /\ UNCHANGED kept
      BY <1>1, <1>17 DEF AsyncLock, PCs
    <2> QED
      BY <1>1, <2>1, <2>2, FieldTypes, KindFacts
  <1>18. CASE Stash(t)
    BY <1>1, <1>18, FieldTypes, KindFacts, SMTT(60) DEF Stash, PCs
  <1>19. CASE SetupFinished(t)
    BY <1>1, <1>19, FieldTypes, KindFacts, SMTT(60) DEF SetupFinished, PCs, ThreadType, States
  <1> QED
    BY <1>2, <1>3, <1>4, <1>5, <1>6, <1>7, <1>8, <1>9, <1>10, <1>11, <1>12, <1>13, <1>14,
       <1>15, <1>16, <1>17, <1>18, <1>19, <1>20 DEF WorkerStep

\* What depends on the threads only through the ring and the setup.
Ring == OneSetup /\ Call /\ InTurn /\ Parked

LEMMA StepsKeepRing ==
  ASSUME Control, NEW t \in Threads, Steps(t)
  PROVE  Ring' /\ \A u \in Threads : ThreadAt(p[u], wpc[u])'
  <1>1. /\ kind' = kind /\ mpc' = mpc /\ avpkt' = avpkt /\ i' = i /\ draining' = draining
        /\ prev_thread' = prev_thread /\ next_decoding' = next_decoding
        /\ next_finished' = next_finished /\ delaying' = delaying
    BY DEF Steps
  <1>2. \A u \in Threads : /\ p'[u].die = p[u].die
                           /\ p'[u].state \in SettingUp => p[u].state \in SettingUp
                           /\ wpc'[u] = "exit" => wpc[u] = "exit"
                           /\ p[u].state = "INPUT_READY" => p'[u] = p[u]
    BY DEF Steps
  <1>3. /\ Submits(avpkt)' <=> Submits(avpkt)
        /\ Submitting' <=> Submitting
        /\ Current' = Current
        /\ \A x, f : Turn(x, f)' = Turn(x, f)
    BY <1>1 DEF Submits, Submitting, Current, Turn
  <1>4. \A u \in Threads : ~Clean(u)' => ~Clean(u)
    BY <1>2 DEF Clean
  <1>5. OneSetup'
    BY <1>1, <1>2, <1>3 DEF Control, OneSetup
  <1>6. Call'
    BY <1>1, <1>3 DEF Control, Call
  <1>7. InTurn'
    BY <1>1, <1>3, <1>4 DEF Control, InTurn, Turn
  <1>8. Parked'
    BY <1>1, <1>2 DEF Control, Parked
  <1>9. \A u \in Threads : ThreadAt(p[u], wpc[u])'
    BY <1>1 DEF Control, Steps, ThreadAt, StateAt, BackAt, LocksAt, OutcomeAt
  <1> QED
    BY <1>5, <1>6, <1>7, <1>8, <1>9 DEF Ring

LEMMA Wakes ==
  ASSUME Types, NEW t
  PROVE  /\ Broadcast(t) => asleep' \in SUBSET (Threads \cup {Main})
         /\ Signal(t) => asleep' \in SUBSET (Threads \cup {Main})
         /\ MainSleeps => asleep' \in SUBSET (Threads \cup {Main})
  BY DEF Types, Broadcast, Signal, MainSleeps

LEMMA WorkerTypes ==
  ASSUME Control, NEW t \in Threads, WorkerStep(t), Steps(t)
  PROVE  Types' /\ Flags'
  <1>1. /\ async_lock' \in BOOLEAN
        /\ hwaccel_mutex' \in Threads \cup {Main} /\ buffer_mutex' \in Threads \cup {Main}
        /\ stash_hwaccel' \in Hwaccel /\ hwaccel_now' \in Hwaccel
        /\ asleep' \in SUBSET (Threads \cup {Main})
        /\ owner' \in [Packets -> Threads \cup {Main}]
        /\ progress' \in SUBSET Packets /\ made' \in SUBSET Packets
        /\ taken' = taken /\ returned' = returned
    <2>1. /\ Types /\ async_lock \in BOOLEAN /\ p[t] \in ThreadType /\ ThreadAt(p[t], wpc[t])
          /\ kind \in Kinds
      BY DEF Control, Types, Flags
    <2> USE DEF Types, hwvars, frames, history, fctx, kept
    <2>2. CASE Start(t) \/ Die(t) \/ FormatReply(t) \/ BufferReply(t) \/ UnlockBuffer(t)
               \/ AwaitReply(t) \/ Decode(t) \/ Await(t) \/ DecodeReturns(t) \/ Decoded(t)
      BY <2>1, <2>2 DEF Start, Die, FormatReply, BufferReply, UnlockBuffer, AwaitReply, Decode,
                        Await, DecodeReturns, Decoded
    <2>3. CASE AsyncUnlock(t) \/ Ready(t) \/ FinishSetup(t) \/ AsyncLock(t) \/ Stash(t)
               \/ SetupFinished(t)
      BY <2>1, <2>3, FieldTypes, Wakes
      DEF AsyncUnlock, Ready, FinishSetup, AsyncLock, Stash, SetupFinished
    <2>4. CASE GetFormat(t)
      <3>1. hwaccel_now' \in {"none", kind.hw, hwaccel_now}
        BY <2>4 DEF GetFormat
      <3>2. asleep' = asleep \/ Broadcast(t)
        BY <2>4 DEF GetFormat
      <3>3. UNCHANGED <<async_lock, hwvars, buffer_mutex, frames, taken, made, returned>>
        BY <2>4 DEF GetFormat
      <3>4. hwaccel_now' \in Hwaccel
        BY <2>1, <3>1, KindFacts DEF Hwaccel
      <3> QED
        BY <2>1, <3>2, <3>3, <3>4, Wakes
    <2>5. CASE GetBuffer(t)
      <3>1. p[t].avpkt \in Packets
        BY <2>1, <2>5, FieldTypes DEF GetBuffer, ThreadAt, OutcomeAt, Numbers
      <3> QED
        BY <2>1, <2>5, <3>1, Wakes DEF GetBuffer
    <2>6. CASE Setup(t)
      <3>1. p[t].outcome = "pic" => p[t].avpkt \in Packets
        BY <2>1, FieldTypes DEF ThreadAt, OutcomeAt, Numbers
      <3> QED
        BY <2>1, <2>6, <3>1 DEF Setup
    <2>7. CASE Report(t)
      <3>1. p[t].avpkt \in Packets
        BY <2>1, <2>7, FieldTypes DEF Report, ThreadAt, OutcomeAt, Numbers
      <3> QED
        BY <2>1, <2>7, <3>1, Wakes DEF Report
    <2> QED
      BY <2>2, <2>3, <2>4, <2>5, <2>6, <2>7 DEF WorkerStep
  <1>2. Types'
    <2>1. Types
      BY DEF Control
    <2>2. /\ p' \in [Threads -> ThreadType] /\ wpc' \in [Threads -> PCs]
          /\ UNCHANGED <<kind, mpc, avpkt, i, got, err, next_packet, draining, draining_done,
                 closing, flushes, failures, prev_thread, next_decoding, next_finished,
                 delaying>>
      BY DEF Steps
    <2> QED
      BY <1>1, <2>1, <2>2 DEF Types
  <1>3. Flags'
    BY <1>1 DEF Control, Flags, Steps
  <1> QED
    BY <1>2, <1>3

LEMMA WorkerLocks ==
  ASSUME Control, NEW t \in Threads, WorkerStep(t), Steps(t)
  PROVE  Locks'
  <1>1. /\ Locks /\ p[t] \in ThreadType /\ ThreadAt(p[t], wpc[t])
        /\ p \in [Threads -> ThreadType] /\ hwaccel_mutex \in Threads \cup {Main}
        /\ async_lock \in BOOLEAN /\ kind \in Kinds
    BY DEF Control, Types, Flags
  <1>2. /\ mpc' = mpc /\ \A u \in Threads \ {t} : p'[u] = p[u]
        /\ p' \in [Threads -> ThreadType]
    BY DEF Steps
  <1>3. CASE /\ UNCHANGED <<hwaccel_mutex, async_lock>>
             /\ p'[t].hwaccel_serializing = p[t].hwaccel_serializing
             /\ p'[t].async_serializing = p[t].async_serializing
    BY <1>1, <1>2, <1>3 DEF Locks
  <1>4. CASE Decode(t)
    <2>1. PICK b \in BOOLEAN : b = (p[t].hwaccel # "none")
      OBVIOUS
    <2>2. /\ b => hwaccel_mutex = Main
          /\ hwaccel_mutex' = IF b THEN t ELSE hwaccel_mutex
          /\ p'[t].hwaccel_serializing = b
          /\ p'[t].async_serializing = p[t].async_serializing
          /\ async_lock' = async_lock
      <3>1. PICK outcome : p' = [p EXCEPT ![t].hwaccel_serializing = b,
                          ![t].frame = 0, ![t].got_frame = FALSE, ![t].outcome = outcome]
        BY <1>4, <2>1 DEF Decode
      <3>2. /\ p'[t].hwaccel_serializing = b
            /\ p'[t].async_serializing = p[t].async_serializing
        BY <1>1, <3>1 DEF ThreadType
      <3> QED
        BY <1>4, <2>1, <3>2 DEF Decode
    <2>3. ~p[t].hwaccel_serializing /\ hwaccel_mutex # t
      BY <1>1, <1>4 DEF Decode, ThreadAt, LocksAt, Locks
    <2> QED
      BY <1>1, <1>2, <2>2, <2>3, Sizes DEF Locks
  <1>5. CASE FinishSetup(t)
    <2>1. PICK b \in BOOLEAN : b = (p[t].hwaccel # "none" /\ ~p[t].hwaccel_serializing)
      OBVIOUS
    <2>2. /\ b => hwaccel_mutex = Main
          /\ hwaccel_mutex' = IF b THEN t ELSE hwaccel_mutex
          /\ p'[t].hwaccel_serializing <=> b \/ p[t].hwaccel_serializing
          /\ p'[t].async_serializing = p[t].async_serializing
          /\ async_lock' = async_lock
      <3>1. p' = [p EXCEPT ![t].hwaccel_serializing = b \/ p[t].hwaccel_serializing]
        BY <1>5, <2>1, Zenon DEF FinishSetup
      <3>2. /\ p'[t].hwaccel_serializing <=> b \/ p[t].hwaccel_serializing
            /\ p'[t].async_serializing = p[t].async_serializing
        BY <1>1, <3>1, FieldTypes DEF ThreadType
      <3> QED
        BY <1>5, <2>1, <3>2 DEF FinishSetup
    <2>3. b => ~p[t].hwaccel_serializing
      BY <2>1
    <2> QED
      BY <1>1, <1>2, <2>2, <2>3, Sizes DEF Locks
  <1>6. CASE Decoded(t)
    <2>1. /\ p'[t].hwaccel_serializing = FALSE /\ hwaccel_mutex' = Main
          /\ p'[t].async_serializing = p[t].async_serializing
          /\ async_lock' = async_lock /\ p[t].hwaccel_serializing
      BY <1>1, <1>6 DEF Decoded, ThreadAt, LocksAt
    <2> QED
      BY <1>1, <1>2, <2>1, Sizes DEF Locks
  <1>7. CASE AsyncUnlock(t)
    <2>1. /\ p'[t].hwaccel_serializing = p[t].hwaccel_serializing
          /\ hwaccel_mutex' = hwaccel_mutex
          /\ p'[t].async_serializing = FALSE
          /\ async_lock' = FALSE /\ p[t].async_serializing
      BY <1>1, <1>7 DEF AsyncUnlock, ThreadAt, LocksAt, hwvars
    <2> QED
      BY <1>1, <1>2, <2>1 DEF Locks
  <1>8. CASE AsyncLock(t)
    <2>1. /\ p'[t].hwaccel_serializing = p[t].hwaccel_serializing
          /\ hwaccel_mutex' = hwaccel_mutex
          /\ p'[t].async_serializing = TRUE
          /\ async_lock' = TRUE /\ ~async_lock
      BY <1>1, <1>8 DEF AsyncLock, hwvars
    <2> QED
      BY <1>1, <1>2, <2>1 DEF Locks
  <1>9. CASE Die(t) \/ FormatReply(t) \/ UnlockBuffer(t) \/ AwaitReply(t) \/ Await(t)
             \/ Stash(t) \/ Report(t)
    BY <1>1, <1>3, <1>9 DEF Die, FormatReply, UnlockBuffer, AwaitReply, Await, Stash, Report, hwvars
  <1>10. CASE Start(t)
    <2>1. /\ p'[t].hwaccel_serializing = p[t].hwaccel_serializing
            /\ p'[t].async_serializing = p[t].async_serializing
      BY <1>1, <1>10 DEF Start, ThreadType
    <2>2. UNCHANGED <<hwaccel_mutex, async_lock>>
      BY <1>10 DEF Start, hwvars
    <2> QED
      BY <1>3, <2>1, <2>2
  <1>14. CASE SetupFinished(t)
    <2>1. /\ p'[t].hwaccel_serializing = p[t].hwaccel_serializing
            /\ p'[t].async_serializing = p[t].async_serializing
      BY <1>1, <1>14 DEF SetupFinished, ThreadType
    <2>2. UNCHANGED <<hwaccel_mutex, async_lock>>
      BY <1>14 DEF SetupFinished, hwvars
    <2> QED
      BY <1>3, <2>1, <2>2
  <1>11. CASE GetFormat(t)
    <2>1. /\ p'[t].hwaccel_serializing = p[t].hwaccel_serializing
            /\ p'[t].async_serializing = p[t].async_serializing
      BY <1>1, <1>11 DEF GetFormat, ThreadType
    <2>2. UNCHANGED <<hwaccel_mutex, async_lock>>
      BY <1>11 DEF GetFormat, hwvars
    <2> QED
      BY <1>3, <2>1, <2>2
  <1>15. CASE GetBuffer(t)
    <2>1. /\ p'[t].hwaccel_serializing = p[t].hwaccel_serializing
            /\ p'[t].async_serializing = p[t].async_serializing
      BY <1>1, <1>15 DEF GetBuffer, ThreadType
    <2>2. UNCHANGED <<hwaccel_mutex, async_lock>>
      BY <1>15 DEF GetBuffer, hwvars
    <2> QED
      BY <1>3, <2>1, <2>2
  <1>16. CASE BufferReply(t)
    <2>1. /\ p'[t].hwaccel_serializing = p[t].hwaccel_serializing
            /\ p'[t].async_serializing = p[t].async_serializing
      BY <1>1, <1>16 DEF BufferReply, ThreadType
    <2>2. UNCHANGED <<hwaccel_mutex, async_lock>>
      BY <1>16 DEF BufferReply, hwvars
    <2> QED
      BY <1>3, <2>1, <2>2
  <1>17. CASE Ready(t)
    <2>1. /\ p'[t].hwaccel_serializing = p[t].hwaccel_serializing
            /\ p'[t].async_serializing = p[t].async_serializing
      BY <1>1, <1>17 DEF Ready, ThreadType
    <2>2. UNCHANGED <<hwaccel_mutex, async_lock>>
      BY <1>17 DEF Ready, hwvars
    <2> QED
      BY <1>3, <2>1, <2>2
  <1>12. CASE Setup(t)
    BY <1>1, <1>3, <1>12 DEF Setup, hwvars
  <1>13. CASE DecodeReturns(t)
    BY <1>1, <1>3, <1>13 DEF DecodeReturns, hwvars
  <1> QED
    BY <1>4, <1>5, <1>6, <1>7, <1>8, <1>9, <1>10, <1>11, <1>12, <1>13, <1>14, <1>15,
       <1>16, <1>17 DEF WorkerStep

LEMMA WorkerToken ==
  ASSUME Control, NEW t \in Threads, WorkerStep(t), Steps(t)
  PROVE  Token'
  <1>1. /\ Token /\ p[t] \in ThreadType /\ ThreadAt(p[t], wpc[t])
        /\ p \in [Threads -> ThreadType] /\ kind \in Kinds /\ wpc \in [Threads -> PCs]
        /\ \A u \in Threads : HasHwaccel(u) => u = Current
    BY DEF Control, Types, OneSetup, HasHwaccel
  <1>2. /\ mpc' = mpc /\ kind' = kind
        /\ \A u \in Threads \ {t} : p'[u] = p[u] /\ wpc'[u] = wpc[u]
        /\ p' \in [Threads -> ThreadType] /\ wpc' \in [Threads -> PCs]
        /\ \A u \in Threads \ {t} : HasHwaccel(u)' <=> HasHwaccel(u)
    BY DEF Steps, HasHwaccel
  <1>3. CASE /\ UNCHANGED <<stash_hwaccel, hwaccel_now>>
             /\ HasHwaccel(t)' <=> HasHwaccel(t)
             /\ HasHwaccel(t)' => p'[t].hwaccel = p[t].hwaccel
    BY <1>1, <1>2, <1>3 DEF Token
  <1>4. CASE GetFormat(t)
    <2>1. HasHwaccel(t)
      BY <1>1, <1>4 DEF GetFormat, HasHwaccel, ThreadAt, StateAt, SettingUp
    <2>2. CASE kind.safe
      <3>1. /\ hwaccel_now' \in {"none", kind.hw} /\ stash_hwaccel' = stash_hwaccel
            /\ p'[t].hwaccel = hwaccel_now'
        <4>1. PICK hw \in {"none", kind.hw} : p' = [p EXCEPT ![t].hwaccel = hw] /\ hwaccel_now' = hw
          BY <1>4, <2>2 DEF GetFormat
        <4>2. stash_hwaccel' = stash_hwaccel
          BY <1>4 DEF GetFormat, hwvars
        <4> QED
          BY <1>1, <4>1, <4>2 DEF ThreadType
      <3>2. stash_hwaccel = "none" /\ \A u \in Threads \ {t} : ~HasHwaccel(u)
        BY <1>1, <2>1 DEF Token
      <3>3. HasHwaccel(t)'
        <4>1. PICK hw \in {"none", kind.hw} : p' = [p EXCEPT ![t].hwaccel = hw]
          BY <1>4, <2>2 DEF GetFormat
        <4>2. wpc' = [wpc EXCEPT ![t] = "ff_get_buffer"]
          BY <1>4, <2>2 DEF GetFormat, Goto
        <4> QED
          BY <1>1, <2>1, <4>1, <4>2 DEF ThreadType, HasHwaccel
      <3> QED
        BY <1>1, <1>2, <3>1, <3>2, <3>3 DEF Token
    <2>3. CASE ~kind.safe
      <3>1. /\ UNCHANGED <<stash_hwaccel, hwaccel_now>>
            /\ HasHwaccel(t)' /\ p'[t].hwaccel = p[t].hwaccel
        <4>1. /\ p' = [p EXCEPT ![t].state = "GET_FORMAT"] /\ Goto(t, "get_format")
              /\ UNCHANGED <<stash_hwaccel, hwaccel_now>>
          BY <1>4, <2>3 DEF GetFormat, hwvars
        <4> QED
          BY <1>1, <4>1 DEF ThreadType, HasHwaccel, Goto, SettingUp
      <3> QED
        BY <1>3, <2>1, <3>1
    <2> QED
      BY <2>2, <2>3
  <1>5. CASE Stash(t)
    <2>1. HasHwaccel(t)
      BY <1>1, <1>5 DEF Stash, HasHwaccel, ThreadAt, StateAt, SettingUp, FinishingSetup
    <2>2. /\ ~HasHwaccel(t)' /\ stash_hwaccel' = p[t].hwaccel
          /\ hwaccel_now' = hwaccel_now
      BY <1>1, <1>5 DEF Stash, HasHwaccel, Goto, history
    <2> QED
      BY <1>1, <1>2, <2>1, <2>2 DEF Token
  <1>6. CASE ~GetFormat(t) /\ ~Stash(t)
    <2>1. UNCHANGED <<stash_hwaccel, hwaccel_now>>
      BY <1>6 DEF WorkerStep, Die, FormatReply, UnlockBuffer, AwaitReply, Await, Report,
         Start, BufferReply, SetupFinished, Ready, GetBuffer, Setup, DecodeReturns, Decode, Decoded,
         AsyncUnlock, FinishSetup, AsyncLock, hwvars, history
    <2>2. CASE Die(t) \/ FormatReply(t) \/ UnlockBuffer(t) \/ AwaitReply(t) \/ Await(t)
             \/ Report(t)
      BY <1>1, <1>3, <2>1, <2>2 DEF Die, FormatReply, UnlockBuffer, AwaitReply, Await, Report,
         HasHwaccel, Goto
    <2>3. CASE Start(t)
      <3>1. /\ p'[t].state = p[t].state /\ p'[t].hwaccel = p[t].hwaccel
            /\ wpc[t] = "wait" /\ wpc'[t] # "setup_finished"
        BY <1>1, <2>3 DEF Start, Goto, ThreadType
      <3> QED
        BY <1>3, <2>1, <3>1 DEF HasHwaccel
    <2>10. CASE BufferReply(t)
      <3>1. /\ p'[t].state = p[t].state /\ p'[t].hwaccel = p[t].hwaccel
            /\ wpc[t] = "get_buffer" /\ wpc'[t] # "setup_finished"
        BY <1>1, <2>10 DEF BufferReply, Goto, ThreadType
      <3> QED
        BY <1>3, <2>1, <3>1 DEF HasHwaccel
    <2>4. CASE GetBuffer(t)
      <3>1. CASE kind.safe
        <4>1. /\ p'[t].state = p[t].state /\ p'[t].hwaccel = p[t].hwaccel
              /\ wpc[t] = "ff_get_buffer" /\ wpc'[t] = "setup"
          BY <1>1, <2>4, <3>1 DEF GetBuffer, Goto, ThreadType
        <4> QED
          BY <1>3, <2>1, <4>1 DEF HasHwaccel
      <3>2. CASE ~kind.safe
        <4>1. /\ p'[t].state = "GET_BUFFER" /\ p'[t].hwaccel = p[t].hwaccel
              /\ wpc[t] = "ff_get_buffer" /\ wpc'[t] = "get_buffer"
          BY <1>1, <2>4, <3>2 DEF GetBuffer, Goto, ThreadType
        <4>2. p[t].state = "SETTING_UP"
          BY <1>1, <3>2, <4>1 DEF ThreadAt, StateAt
        <4> QED
          BY <1>3, <2>1, <4>1, <4>2 DEF HasHwaccel, SettingUp
      <3> QED
        BY <3>1, <3>2
    <2>5. CASE SetupFinished(t) \/ Ready(t)
      <3>1. p'[t].state \notin SettingUp
        BY <1>1, <2>5 DEF SetupFinished, Ready, SettingUp, ThreadType
      <3>2. wpc[t] = "setup_finished" \/ p[t].state = "SETUP_FINISHED"
        BY <1>1, <2>5 DEF SetupFinished, Ready, ThreadAt, StateAt
      <3> QED
        BY <1>3, <2>1, <3>1, <3>2 DEF HasHwaccel, SettingUp
    <2>11. CASE Decoded(t) \/ AsyncUnlock(t)
      <3>1. ~HasHwaccel(t)
        BY <1>1, <2>11 DEF Decoded, AsyncUnlock, HasHwaccel, SettingUp, ThreadAt, StateAt
      <3>2. p'[t].state = p[t].state /\ wpc[t] # "setup_finished"
        BY <1>1, <2>11 DEF Decoded, AsyncUnlock, ThreadType
      <3> QED
        BY <1>3, <2>1, <3>1, <3>2 DEF HasHwaccel
    <2>6. CASE FinishSetup(t)
      <3>1. p'[t].state = p[t].state /\ p'[t].hwaccel = p[t].hwaccel
        BY <1>1, <2>6 DEF FinishSetup, ThreadType
      <3>2. wpc[t] = "finish_setup" /\ wpc'[t] # "setup_finished"
        BY <1>1, <2>6 DEF FinishSetup, Goto
      <3> QED
        BY <1>3, <2>1, <3>1, <3>2 DEF HasHwaccel
    <2>12. CASE AsyncLock(t)
      <3>1. p'[t].state = p[t].state /\ p'[t].hwaccel = p[t].hwaccel
        BY <1>1, <2>12 DEF AsyncLock, ThreadType
      <3>2. wpc[t] = "async_lock" /\ wpc'[t] # "setup_finished"
        BY <1>1, <2>12 DEF AsyncLock, Goto
      <3> QED
        BY <1>3, <2>1, <3>1, <3>2 DEF HasHwaccel
    <2>7. CASE Decode(t)
      BY <1>1, <1>3, <2>1, <2>7 DEF Decode, HasHwaccel, Goto
    <2>8. CASE Setup(t)
      BY <1>1, <1>3, <2>1, <2>8 DEF Setup, HasHwaccel, Goto
    <2>9. CASE DecodeReturns(t)
      BY <1>1, <1>3, <2>1, <2>9 DEF DecodeReturns, HasHwaccel, Goto, AfterDecode
    <2> QED
      BY <1>6, <2>2, <2>3, <2>4, <2>5, <2>6, <2>7, <2>8, <2>9, <2>10, <2>11, <2>12 DEF WorkerStep
  <1> QED
    BY <1>4, <1>5, <1>6

-----------------------------------------------------------------------------
(* The steps of the caller.                                                *)

\* What a thread is doing does not show in its context, frame, and so on.
Alike(x, y) ==
  /\ x.state = y.state /\ x.hwaccel = y.hwaccel /\ x.outcome = y.outcome /\ x.back = y.back
  /\ x.hwaccel_serializing = y.hwaccel_serializing
  /\ x.async_serializing = y.async_serializing /\ x.avpkt = y.avpkt

LEMMA UpdateOne ==
  ASSUME p \in [Threads -> ThreadType], NEW t \in Threads, NEW x \in ThreadType,
         p' = [p EXCEPT ![t] = x]
  PROVE  /\ p' \in [Threads -> ThreadType] /\ p'[t] = x
         /\ \A u \in Threads \ {t} : p'[u] = p[u]
  OBVIOUS

LEMMA AlikeAt ==
  ASSUME kind' = kind, NEW u \in Threads, wpc'[u] = wpc[u], Alike(p'[u], p[u]),
         ThreadAt(p[u], wpc[u])
  PROVE  ThreadAt(p[u], wpc[u])'
  BY DEF Alike, ThreadAt, StateAt, BackAt, LocksAt, OutcomeAt

LEMMA IdleThread ==
  ASSUME Control, NEW t \in Threads, p[t].state = "INPUT_READY", mpc \notin Closing
  PROVE  wpc[t] = "wait" /\ p[t].hwaccel = "none"
  BY DEF Control, ThreadAt, StateAt, Parked

\* The thread that takes the packet is idle.
LEMMA NextIsIdle ==
  ASSUME Control, mpc \in {"submit", "update", "transfer"}
  PROVE  next_decoding \in Threads /\ Clean(next_decoding)
  <1>1. next_decoding \in Threads
    BY Sizes DEF Control, Call, Types
  <1>2. next_finished \in Threads /\ next_finished \in Nat
    BY Sizes DEF Control, Types
  <1>3. Turn(next_decoding, next_finished) \in Int
    BY <1>1, <1>2, Sizes DEF Turn
  <1>4. ~Submitting
    BY DEF Submitting
  <1> QED
    BY <1>1, <1>3, <1>4 DEF Control, InTurn, Calling

LEMMA ContextType ==
  ASSUME p \in [Threads -> ThreadType], NEW dst \in Threads, NEW src \in Threads
  PROVE  /\ CopyContext(dst, src) \in [Threads -> ThreadType]
         /\ \A u \in Threads : /\ Alike(CopyContext(dst, src)[u], p[u])
                               /\ CopyContext(dst, src)[u].die = p[u].die
                               /\ CopyContext(dst, src)[u].frame = p[u].frame
                               /\ CopyContext(dst, src)[u].got_frame = p[u].got_frame
                               /\ CopyContext(dst, src)[u].failed = p[u].failed
                               /\ CopyContext(dst, src)[u].out = p[u].out
         /\ \A u \in Threads \ {dst} : CopyContext(dst, src)[u] = p[u]
         /\ CopyContext(dst, src)[dst].ctx = IF kind.update THEN p[src].ctx ELSE p[dst].ctx
  BY FieldTypes DEF CopyContext, ThreadType, Alike

LEMMA NewestType ==
  ASSUME Types
  PROVE  /\ Newest \in [Threads -> ThreadType]
         /\ \A u \in Threads : /\ Alike(Newest[u], p[u]) /\ Newest[u].die = p[u].die
         /\ \A u \in Threads \ {0} : Newest[u] = p[u]
         /\ Newest[0].ctx = IF kind.update /\ prev_thread # Main THEN p[prev_thread].ctx
                            ELSE p[0].ctx
  BY ContextType, Sizes DEF Newest, Types, Alike

LEMMA TransferFacts ==
  ASSUME Control, Transfer
  PROVE  /\ next_decoding \in Threads /\ Clean(next_decoding) /\ wpc[next_decoding] = "wait"
         /\ p[next_decoding] \in ThreadType /\ p' \in [Threads -> ThreadType]
         /\ \A u \in Threads \ {next_decoding} : p'[u] = p[u]
         /\ p'[next_decoding] = [p[next_decoding] EXCEPT
              !.hwaccel = stash_hwaccel, !.avpkt = avpkt, !.state = "SETTING_UP"]
         /\ stash_hwaccel \in {"none", kind.hw} /\ next_decoding' = next_decoding
         /\ kind' = kind /\ wpc' = wpc /\ p[next_decoding].hwaccel = "none"
         /\ stash_hwaccel' = "none" /\ hwaccel_now' = hwaccel_now
         /\ mpc' \in {"submitted", "serve"} /\ mpc = "transfer"
         /\ kind.safe \/ mpc' = "serve"
  <1>1. p \in [Threads -> ThreadType]
    BY DEF Control, Types
  <1>2. /\ next_decoding \in Threads /\ Clean(next_decoding) /\ wpc[next_decoding] = "wait"
        /\ p[next_decoding].hwaccel = "none"
    BY NextIsIdle, IdleThread DEF Transfer, Clean, Closing
  <1>3. /\ p' = [p EXCEPT ![next_decoding].hwaccel = stash_hwaccel,
                    ![next_decoding].avpkt = avpkt,
                    ![next_decoding].state = "SETTING_UP"]
        /\ avpkt \in Numbers /\ stash_hwaccel \in Hwaccel /\ stash_hwaccel \in {"none", kind.hw}
    BY DEF Transfer, Control, Types, Token
  <1>4. p' = [p EXCEPT ![next_decoding] = [p[next_decoding] EXCEPT
                   !.hwaccel = stash_hwaccel, !.avpkt = avpkt, !.state = "SETTING_UP"]]
    BY <1>1, <1>2, <1>3
  <1>5. [p[next_decoding] EXCEPT !.hwaccel = stash_hwaccel, !.avpkt = avpkt,
                                     !.state = "SETTING_UP"] \in ThreadType
    <2>1. PICK x \in ThreadType : x = p[next_decoding]
      BY <1>1, <1>2
    <2>2. [x EXCEPT !.hwaccel = stash_hwaccel, !.avpkt = avpkt, !.state = "SETTING_UP"]
            \in ThreadType
      BY <1>3 DEF ThreadType, States
    <2> QED
      BY <2>1, <2>2
  <1>6. /\ p' \in [Threads -> ThreadType]
        /\ \A u \in Threads \ {next_decoding} : p'[u] = p[u]
        /\ p'[next_decoding] = [p[next_decoding] EXCEPT
              !.hwaccel = stash_hwaccel, !.avpkt = avpkt, !.state = "SETTING_UP"]
    BY <1>1, <1>2, <1>4, <1>5, UpdateOne
  <1>7. /\ next_decoding' = next_decoding /\ kind' = kind /\ wpc' = wpc
        /\ stash_hwaccel' = p[next_decoding].hwaccel /\ hwaccel_now' = hwaccel_now
        /\ mpc' \in {"submitted", "serve"} /\ mpc = "transfer"
        /\ kind.safe \/ mpc' = "serve"
    BY DEF Transfer, fctx
  <1> QED
    BY <1>1, <1>2, <1>3, <1>6, <1>7

LEMMA ServeFacts ==
  ASSUME Control, ServeBuffer \/ ServeFormat
  PROVE  /\ next_decoding \in Threads /\ Current = next_decoding
         /\ p[next_decoding] \in ThreadType
         /\ \E b \in BOOLEAN, hw \in {"none", kind.hw} :
              /\ hw = p[next_decoding].hwaccel \/ p[next_decoding].state = "GET_FORMAT"
              /\ p'[next_decoding] = [p[next_decoding] EXCEPT !.failed = b, !.hwaccel = hw,
                                     !.state = "SETTING_UP"]
              /\ \/ ServeBuffer /\ hw = p[next_decoding].hwaccel /\ hwaccel_now' = hwaccel_now
                 \/ hwaccel_now' = hw
         /\ p' \in [Threads -> ThreadType]
         /\ \A u \in Threads \ {next_decoding} : p'[u] = p[u]
         /\ p[next_decoding].state \in {"GET_BUFFER", "GET_FORMAT"}
         /\ UNCHANGED <<kind, mpc, call, client, fctx, async_lock, stash_hwaccel, wpc>>
  <1>1. p \in [Threads -> ThreadType] /\ kind \in Kinds
        /\ \A u \in Threads : ThreadAt(p[u], wpc[u])
    BY DEF Control, Types
  <1>2. Current = next_decoding /\ next_decoding \in Threads
    BY Sizes DEF ServeBuffer, ServeFormat, Serving, Current, Submitting, Control, Call, Types
  <1>3. p[next_decoding] \in ThreadType /\ p[next_decoding].hwaccel \in {"none", kind.hw}
    BY <1>1, <1>2 DEF ThreadAt, LocksAt
  <1>4. PICK b \in BOOLEAN, hw \in {"none", kind.hw} :
          /\ p' = [p EXCEPT ![next_decoding].failed = b, ![next_decoding].hwaccel = hw,
                           ![next_decoding].state = "SETTING_UP"]
          /\ hw = p[next_decoding].hwaccel \/ p[next_decoding].state = "GET_FORMAT"
          /\ \/ ServeBuffer /\ hw = p[next_decoding].hwaccel /\ hwaccel_now' = hwaccel_now
             \/ hwaccel_now' = hw
    <2>1. CASE ServeBuffer
      <3>1. PICK b \in BOOLEAN : p' = [p EXCEPT ![next_decoding].failed = b,
                                               ![next_decoding].state = "SETTING_UP"]
        BY <2>1 DEF ServeBuffer
      <3>2. p' = [p EXCEPT ![next_decoding].failed = b,
                           ![next_decoding].hwaccel = p[next_decoding].hwaccel,
                           ![next_decoding].state = "SETTING_UP"]
        BY <1>1, <1>2, <1>3, <3>1 DEF ThreadType
      <3>3. hwaccel_now' = hwaccel_now
        BY <2>1 DEF ServeBuffer, history
      <3> QED
        BY <1>3, <2>1, <3>2, <3>3
    <2>2. CASE ServeFormat
      <3>1. PICK hw \in {"none", kind.hw} :
              /\ p' = [p EXCEPT ![next_decoding].hwaccel = hw,
                                ![next_decoding].state = "SETTING_UP"]
              /\ hwaccel_now' = hw
        BY <2>2 DEF ServeFormat
      <3>2. p' = [p EXCEPT ![next_decoding].failed = p[next_decoding].failed,
                           ![next_decoding].hwaccel = hw,
                           ![next_decoding].state = "SETTING_UP"]
        BY <1>1, <1>2, <1>3, <3>1 DEF ThreadType
      <3> QED
        BY <1>3, <2>2, <3>1, <3>2, FieldTypes DEF ServeFormat
    <2> QED
      BY <2>1, <2>2
  <1>5. p' = [p EXCEPT ![next_decoding] = [p[next_decoding] EXCEPT !.failed = b,
                                !.hwaccel = hw, !.state = "SETTING_UP"]]
    BY <1>1, <1>2, <1>4
  <1>6. [p[next_decoding] EXCEPT !.failed = b, !.hwaccel = hw,
                                     !.state = "SETTING_UP"] \in ThreadType
    <2>1. PICK x \in ThreadType : x = p[next_decoding]
      BY <1>3
    <2>2. hw \in Hwaccel
      BY <1>1, KindFacts DEF Hwaccel
    <2>3. [x EXCEPT !.failed = b, !.hwaccel = hw, !.state = "SETTING_UP"] \in ThreadType
      BY <2>2 DEF ThreadType, States
    <2> QED
      BY <2>1, <2>3
  <1>7. /\ p' \in [Threads -> ThreadType]
        /\ \A u \in Threads \ {next_decoding} : p'[u] = p[u]
        /\ p'[next_decoding] = [p[next_decoding] EXCEPT !.failed = b, !.hwaccel = hw,
                                     !.state = "SETTING_UP"]
    BY <1>1, <1>2, <1>5, <1>6, UpdateOne
  <1>8. /\ p[next_decoding].state \in {"GET_BUFFER", "GET_FORMAT"}
        /\ UNCHANGED <<kind, mpc, call, client, fctx, async_lock, stash_hwaccel, wpc>>
    BY DEF ServeBuffer, ServeFormat, hwvars
  <1> QED
    BY <1>2, <1>3, <1>4, <1>7, <1>8

LEMMA FetchFacts ==
  ASSUME Control, Fetch
  PROVE  /\ i \in Threads /\ p[i] \in ThreadType /\ p' \in [Threads -> ThreadType]
         /\ p'[i] = [p[i] EXCEPT !.frame = 0, !.got_frame = FALSE, !.failed = FALSE]
         /\ \A u \in Threads \ {i} : p'[u] = p[u]
         /\ \A u \in Threads : Alike(p'[u], p[u])
  <1>1. i \in Threads /\ p \in [Threads -> ThreadType]
    BY DEF Control, Call, Fetch, Types
  <1>2. p' = [p EXCEPT ![i].frame = 0, ![i].got_frame = FALSE, ![i].failed = FALSE]
    BY DEF Fetch
  <1> DEFINE x == [p[i] EXCEPT !.frame = 0, !.got_frame = FALSE, !.failed = FALSE]
  <1>3. p' = [p EXCEPT ![i] = x]
    BY <1>1, <1>2
  <1>4. x \in ThreadType /\ Alike(x, p[i]) /\ p[i] \in ThreadType
    BY <1>1, FieldTypes DEF ThreadType, Alike, Numbers
  <1>5. \A u \in Threads : Alike(p[u], p[u])
    BY DEF Alike
  <1> HIDE DEF x
  <1>6. /\ p' \in [Threads -> ThreadType] /\ p'[i] = x
        /\ \A u \in Threads \ {i} : p'[u] = p[u]
    BY <1>1, <1>3, <1>4, UpdateOne
  <1>7. \A u \in Threads : Alike(p'[u], p[u])
    BY <1>4, <1>5, <1>6
  <1> QED
    BY <1>1, <1>4, <1>6, <1>7 DEF x

LEMMA FlushedFacts ==
  ASSUME Control, Flushed
  PROVE  /\ p' \in [Threads -> ThreadType]
         /\ \A u \in Threads :
              /\ Alike(p'[u], p[u]) /\ p'[u].frame = 0 /\ p'[u].got_frame = FALSE
              /\ p'[u].failed = FALSE /\ p'[u].ctx.held = 0 /\ p'[u].die = p[u].die
              /\ p'[u].ctx.seen = Newest[u].ctx.seen /\ p'[u].out = Newest[u].out
  <1>1. /\ Newest \in [Threads -> ThreadType]
        /\ \A u \in Threads : Alike(Newest[u], p[u]) /\ Newest[u].die = p[u].die
    BY NewestType DEF Control
  <1> HIDE DEF Newest
  <1>2. \A u \in Threads : Newest[u] \in ThreadType
    BY <1>1
  <1>3. \A u \in Threads :
          LET x == [Newest[u] EXCEPT !.frame = 0, !.got_frame = FALSE, !.failed = FALSE,
                             !.ctx.held = 0, !.ctx.ref = 0] IN
          /\ x \in ThreadType /\ Alike(x, Newest[u]) /\ x.frame = 0 /\ x.got_frame = FALSE
          /\ x.failed = FALSE /\ x.ctx.held = 0 /\ x.ctx.seen = Newest[u].ctx.seen
          /\ x.die = Newest[u].die /\ x.out = Newest[u].out
    <2> TAKE u \in Threads
    <2>1. PICK x \in ThreadType : x = Newest[u]
      BY <1>2
    <2>2. PICK c \in Contexts : c = [x.ctx EXCEPT !.held = 0, !.ref = 0]
      BY FieldTypes, <2>1 DEF Contexts, Numbers
    <2>3. [x EXCEPT !.frame = 0, !.got_frame = FALSE, !.failed = FALSE,
                    !.ctx.held = 0, !.ctx.ref = 0]
          = [x EXCEPT !.frame = 0, !.got_frame = FALSE, !.failed = FALSE, !.ctx = c]
      BY <2>1, <2>2 DEF ThreadType, Contexts
    <2>4. [x EXCEPT !.frame = 0, !.got_frame = FALSE, !.failed = FALSE, !.ctx = c]
            \in ThreadType
      BY DEF ThreadType, Numbers
    <2>5. Alike([x EXCEPT !.frame = 0, !.got_frame = FALSE, !.failed = FALSE, !.ctx = c], x)
      BY <2>1, <2>2 DEF ThreadType, Alike
    <2>6. PICK y \in ThreadType :
            y = [x EXCEPT !.frame = 0, !.got_frame = FALSE, !.failed = FALSE, !.ctx = c]
      BY <2>4
    <2>7. /\ y.frame = 0 /\ y.got_frame = FALSE /\ y.failed = FALSE /\ y.ctx = c
          /\ y.die = x.die /\ y.out = x.out
      BY <2>6 DEF ThreadType
    <2>8. c.held = 0 /\ c.seen = x.ctx.seen
      BY <2>1, <2>2, FieldTypes DEF Contexts, ThreadType
    <2> QED
      BY <2>1, <2>3, <2>4, <2>5, <2>6, <2>7, <2>8
  <1>4. p' = [t \in Threads |->
           [Newest[t] EXCEPT !.frame = 0, !.got_frame = FALSE, !.failed = FALSE,
                             !.ctx.held = 0, !.ctx.ref = 0]]
    BY DEF Flushed
  <1>5. /\ p' \in [Threads -> ThreadType]
        /\ \A u \in Threads :
             /\ Alike(p'[u], Newest[u]) /\ p'[u].frame = 0 /\ p'[u].got_frame = FALSE
             /\ p'[u].failed = FALSE /\ p'[u].ctx.held = 0 /\ p'[u].die = Newest[u].die
             /\ p'[u].ctx.seen = Newest[u].ctx.seen /\ p'[u].out = Newest[u].out
    BY <1>3, <1>4
  <1> QED
    BY <1>1, <1>5 DEF Alike

LEMMA CallerThreads ==
  ASSUME Control, Client \/ CallStep \/ SpuriousWakeup
  PROVE  /\ kind' = kind /\ wpc' = wpc
         /\ p' \in [Threads -> ThreadType] /\ \A u \in Threads : ThreadAt(p[u], wpc[u])'
         /\ \A u \in Threads : p'[u].hwaccel_serializing = p[u].hwaccel_serializing
                              /\ p'[u].async_serializing = p[u].async_serializing
         /\ ~Transfer /\ ~ServeBuffer /\ ~ServeFormat =>
              \A u \in Threads : Alike(p'[u], p[u])
  <1>1. /\ p \in [Threads -> ThreadType] /\ kind \in Kinds
        /\ \A u \in Threads : ThreadAt(p[u], wpc[u])
    BY DEF Control, Types
  <1>2. kind' = kind /\ wpc' = wpc
    BY DEF Client, SendPacket, Drain, Enter, Flush, Free, Park, CallStep, Submit, AwaitSetup,
       UpdateContext, UpdateFails, Transfer, AwaitRequest, ServeBuffer, ServeFormat, Served,
       Submitted, AwaitOutput, Fetch, Return, AwaitIdle, Idle, Flushed, Freeing, Kill, Join,
       Freed, SpuriousWakeup
  <1>3. CASE p' = p
    BY <1>1, <1>2, <1>3, AlikeAt DEF Alike
  <1>4. ASSUME /\ p' \in [Threads -> ThreadType]
               /\ \A u \in Threads : Alike(p'[u], p[u])
        PROVE  /\ p' \in [Threads -> ThreadType]
               /\ \A u \in Threads : ThreadAt(p[u], wpc[u])'
               /\ \A u \in Threads : p'[u].hwaccel_serializing = p[u].hwaccel_serializing
                                    /\ p'[u].async_serializing = p[u].async_serializing
               /\ \A u \in Threads : Alike(p'[u], p[u])
    <2>1. \A u \in Threads : ThreadAt(p[u], wpc[u])'
      BY <1>1, <1>2, <1>4, AlikeAt
    <2> QED
      BY <1>4, <2>1 DEF Alike
  <1>5. CASE UpdateContext
    BY <1>5, <1>1, <1>4, ContextType, NextIsIdle DEF UpdateContext, Control, OneSetup, Types
  <1>6. CASE Transfer
    <2>1. ThreadAt(p[next_decoding], wpc[next_decoding])'
      <3>1. PICK x \in ThreadType : x = p[next_decoding]
        BY <1>6, TransferFacts
      <3>2. /\ ThreadAt(x, "wait") /\ wpc'[next_decoding'] = "wait"
            /\ p'[next_decoding'] = [x EXCEPT !.hwaccel = stash_hwaccel, !.avpkt = avpkt,
                                              !.state = "SETTING_UP"]
            /\ stash_hwaccel \in {"none", kind.hw}
        BY <1>1, <1>6, <3>1, TransferFacts
      <3> QED
        BY <1>1, <1>2, <3>1, <3>2, KindFacts, FieldTypes
        DEF ThreadAt, StateAt, BackAt, LocksAt, OutcomeAt, FinishingSetup, ThreadType
    <2>2. \A u \in Threads \ {next_decoding} : ThreadAt(p[u], wpc[u])'
      BY <1>1, <1>2, <1>6, TransferFacts, AlikeAt DEF Alike
    <2>3. /\ p'[next_decoding].hwaccel_serializing = p[next_decoding].hwaccel_serializing
          /\ p'[next_decoding].async_serializing = p[next_decoding].async_serializing
      BY <1>6, TransferFacts DEF ThreadType
    <2> QED
      BY <1>2, <1>6, <2>1, <2>2, <2>3, TransferFacts
  <1>7. CASE ServeBuffer \/ ServeFormat
    <2>1. PICK b \in BOOLEAN, hw \in {"none", kind.hw} :
            /\ hw = p[next_decoding].hwaccel \/ p[next_decoding].state = "GET_FORMAT"
            /\ p'[next_decoding] = [p[next_decoding] EXCEPT !.failed = b, !.hwaccel = hw,
                                       !.state = "SETTING_UP"]
      BY <1>7, ServeFacts
    <2>2. /\ next_decoding \in Threads /\ p[next_decoding] \in ThreadType
          /\ next_decoding' = next_decoding
          /\ p[next_decoding].state \in {"GET_BUFFER", "GET_FORMAT"}
      BY <1>7, ServeFacts DEF fctx
    <2>3. ThreadAt(p[next_decoding], wpc[next_decoding])'
      <3>1. PICK x \in ThreadType, pc \in PCs :
              x = p[next_decoding] /\ pc = wpc[next_decoding]
        BY <2>2 DEF Control, Types
      <3>2. /\ ThreadAt(x, pc) /\ wpc'[next_decoding'] = pc
            /\ x.state \in {"GET_BUFFER", "GET_FORMAT"}
            /\ hw = x.hwaccel \/ x.state = "GET_FORMAT"
        BY <1>1, <1>2, <2>1, <2>2, <3>1
      <3>10. PICK y : y = [x EXCEPT !.failed = b, !.hwaccel = hw, !.state = "SETTING_UP"]
        OBVIOUS
      <3>11. y = p'[next_decoding']
        BY <2>1, <2>2, <3>1, <3>10
      <3>3.          /\ y = p'[next_decoding']
                     /\ y.state = "SETTING_UP" /\ y.hwaccel = hw /\ y.back = x.back
                     /\ y.hwaccel_serializing = x.hwaccel_serializing
                     /\ y.async_serializing = x.async_serializing
                     /\ y.outcome = x.outcome /\ y.avpkt = x.avpkt
        BY <2>2, <3>1, <3>10, <3>11 DEF ThreadType
      <3>4. pc \in {"get_format", "get_buffer"} /\ (hw = x.hwaccel \/ pc = "get_format")
        BY <3>2 DEF ThreadAt, StateAt
      <3>5. StateAt(p[next_decoding], wpc[next_decoding])' /\ BackAt(p[next_decoding], wpc[next_decoding])'
        BY <1>1, <1>2, <3>2, <3>3, <3>4, KindFacts
        DEF ThreadAt, StateAt, BackAt, FinishingSetup
      <3>6. LocksAt(p[next_decoding], wpc[next_decoding])' /\ OutcomeAt(p[next_decoding], wpc[next_decoding])'
        BY <1>1, <1>2, <3>2, <3>3, <3>4, KindFacts
        DEF ThreadAt, LocksAt, OutcomeAt
      <3> QED
        BY <3>5, <3>6 DEF ThreadAt
    <2>4. \A u \in Threads \ {next_decoding} : ThreadAt(p[u], wpc[u])'
      BY <1>1, <1>2, <1>7, ServeFacts, AlikeAt DEF Alike
    <2>5. /\ p'[next_decoding].hwaccel_serializing = p[next_decoding].hwaccel_serializing
          /\ p'[next_decoding].async_serializing = p[next_decoding].async_serializing
      BY <2>1, <2>2 DEF ThreadType
    <2> QED
      BY <1>2, <1>7, <2>2, <2>3, <2>4, <2>5, ServeFacts
  <1>8. CASE Fetch
    BY <1>2, <1>4, <1>8, FetchFacts
  <1>9. CASE Idle
    <2>1. i \in Threads /\ p' = [p EXCEPT ![i].got_frame = FALSE]
      BY <1>9, Sizes DEF Control, Types, Idle
    <2> DEFINE x == [p[i] EXCEPT !.got_frame = FALSE]
    <2>3. p' = [p EXCEPT ![i] = x]
      BY <1>1, <2>1
    <2>4. x \in ThreadType /\ Alike(x, p[i])
      BY <1>1, <2>1, FieldTypes DEF ThreadType, Alike, Numbers
    <2>5. \A u \in Threads : Alike(p[u], p[u])
      BY DEF Alike
    <2> HIDE DEF x
    <2>6. /\ p' \in [Threads -> ThreadType] /\ p'[i] = x
          /\ \A u \in Threads \ {i} : p'[u] = p[u]
      BY <1>1, <2>1, <2>3, <2>4, UpdateOne
    <2>7. \A u \in Threads : Alike(p'[u], p[u])
      BY <2>1, <2>4, <2>5, <2>6
    <2> QED
      BY <1>2, <1>4, <2>6, <2>7
  <1>10. CASE Flushed
    BY <1>2, <1>4, <1>10, FlushedFacts
  <1>11. CASE Freeing
    BY <1>4, <1>11, NewestType DEF Control, Freeing
  <1>12. CASE Kill
    <2>1. i \in Threads /\ p' = [p EXCEPT ![i].die = TRUE]
      BY <1>12, Sizes DEF Control, Types, Kill
    <2> DEFINE x == [p[i] EXCEPT !.die = TRUE]
    <2>3. p' = [p EXCEPT ![i] = x]
      BY <1>1, <2>1
    <2>4. x \in ThreadType /\ Alike(x, p[i])
      BY <1>1, <2>1, FieldTypes DEF ThreadType, Alike, Numbers
    <2>5. \A u \in Threads : Alike(p[u], p[u])
      BY DEF Alike
    <2> HIDE DEF x
    <2>6. /\ p' \in [Threads -> ThreadType] /\ p'[i] = x
          /\ \A u \in Threads \ {i} : p'[u] = p[u]
      BY <1>1, <2>1, <2>3, <2>4, UpdateOne
    <2>7. \A u \in Threads : Alike(p'[u], p[u])
      BY <2>1, <2>4, <2>5, <2>6
    <2> QED
      BY <1>2, <1>4, <2>6, <2>7
  <1>13. CASE Client \/ SpuriousWakeup
    BY <1>3, <1>2, <1>13 DEF Client, SendPacket, Drain, Enter, Flush, Free, Park, SpuriousWakeup
  <1>14. CASE Submit \/ AwaitSetup \/ UpdateFails \/ AwaitRequest \/ Served \/ Submitted
              \/ AwaitOutput \/ Return \/ AwaitIdle \/ Join \/ Freed
    BY <1>3, <1>2, <1>14 DEF Submit, AwaitSetup, UpdateFails, AwaitRequest, Served, Submitted,
       AwaitOutput, Return, AwaitIdle, Join, Freed
  <1> QED
    BY <1>2, <1>5, <1>6, <1>7, <1>8, <1>9, <1>10, <1>11, <1>12, <1>13, <1>14 DEF CallStep

\* The variables with numbers, and the others.
Counters ==
  /\ avpkt \in Numbers /\ got \in Numbers
  /\ i \in Nat /\ i <= ThreadCount
  /\ next_packet \in Nat /\ 1 <= next_packet /\ next_packet <= MaxPackets + 1
  /\ flushes \in Nat /\ flushes <= MaxFlushes /\ failures \in Nat /\ failures <= MaxFailures
  /\ prev_thread \in Threads \cup {Main}
  /\ next_decoding \in Nat /\ next_decoding <= ThreadCount /\ next_finished \in Threads
Others ==
  /\ mpc \in {"user", "submit", "update", "transfer", "serve", "submitted", "fetch", "lock",
              "park", "kill", "join", "end"}
  /\ stash_hwaccel \in Hwaccel /\ hwaccel_now \in Hwaccel
  /\ asleep \in SUBSET (Threads \cup {Main})
  /\ taken \in SUBSET Packets /\ made \in SUBSET Packets /\ returned \in SUBSET Packets

LEMMA CallerCounters ==
  ASSUME Control, Client \/ CallStep \/ SpuriousWakeup
  PROVE  Counters'
  <1>1. Counters /\ Call /\ Parked /\ (mpc \in Calling => i = next_finished)
    BY DEF Control, Types, Counters, Call
  <1>2. CASE UNCHANGED <<avpkt, i, got, next_packet, flushes, failures, prev_thread,
                         next_decoding, next_finished>>
    BY <1>1, <1>2 DEF Counters
  <1>3. CASE AwaitSetup \/ UpdateContext \/ Transfer \/ AwaitRequest \/ ServeBuffer
             \/ ServeFormat \/ Served \/ AwaitOutput \/ SpuriousWakeup \/ Submit
             \/ AwaitIdle \/ Kill \/ Freed
    BY <1>2, <1>3 DEF AwaitSetup, UpdateContext, Transfer, AwaitRequest, ServeBuffer,
       ServeFormat, Served, AwaitOutput, SpuriousWakeup, Submit, AwaitIdle, Kill, Freed,
       call, client, fctx
  <1>4. CASE SendPacket
    <2>1. next_packet \in Numbers /\ next_finished \in Nat /\ next_finished <= ThreadCount
          /\ 0 \in Numbers
      BY <1>1, <1>4, Sizes DEF SendPacket, Counters, Numbers, Packets
    <2>2. PICK m \in Nat : m = next_packet + 1
      BY <1>1 DEF Counters
    <2>3. 1 <= m /\ m <= MaxPackets + 1
      BY <1>1, <1>4, <2>2, Sizes DEF SendPacket, Counters
    <2>4. /\ avpkt' = next_packet /\ i' = next_finished /\ got' = 0 /\ next_packet' = m
          /\ UNCHANGED <<flushes, failures, prev_thread, next_decoding, next_finished>>
      BY <1>4, <2>2 DEF SendPacket, Enter, fctx
    <2> QED
      BY <1>1, <2>1, <2>3, <2>4 DEF Counters
  <1>5. CASE Drain
    <2>1. 0 \in Numbers /\ next_finished \in Nat /\ next_finished <= ThreadCount
      BY <1>1, Sizes DEF Counters, Numbers
    <2>2. /\ avpkt' = 0 /\ i' = next_finished /\ got' = 0
          /\ UNCHANGED <<next_packet, flushes, failures, prev_thread, next_decoding, next_finished>>
      BY <1>5 DEF Drain, Enter, fctx
    <2> QED
      BY <1>1, <2>1, <2>2 DEF Counters
  <1>6. CASE UpdateFails
    <2>1. PICK m \in Nat : m = failures + 1
      BY <1>1 DEF Counters
    <2>2. m <= MaxFailures
      BY <1>1, <1>6, <2>1, Sizes DEF UpdateFails, Counters
    <2>3. /\ failures' = m
          /\ UNCHANGED <<avpkt, i, got, next_packet, flushes, prev_thread,
                         next_decoding, next_finished>>
      BY <1>6, <2>1 DEF UpdateFails, fctx
    <2> QED
      BY <1>1, <2>2, <2>3 DEF Counters
  <1>7. CASE Submitted
    <2>1. CASE Submits(avpkt)
      <3>1. PICK m \in Nat : m = next_decoding + 1
        BY <1>1 DEF Counters
      <3>2. m <= ThreadCount /\ next_decoding \in Threads
        BY <1>1, <1>7, <3>1, Sizes DEF Counters, Call, Submitted
      <3>3. /\ next_decoding' = m /\ prev_thread' = next_decoding
            /\ UNCHANGED <<avpkt, i, got, next_packet, flushes, failures, next_finished>>
        BY <1>7, <2>1, <3>1 DEF Submitted, call, client
      <3> QED
        BY <1>1, <3>2, <3>3 DEF Counters
    <2>2. CASE ~Submits(avpkt)
      BY <1>2, <1>7, <2>2 DEF Submitted, call, client
    <2> QED
      BY <2>1, <2>2
  <1>8. CASE Fetch
    <2>1. i \in Threads /\ p[i] \in ThreadType
      BY <1>1, <1>8 DEF Fetch, Call, Control, Types
    <2>2. PICK next \in Threads : next = IF i + 1 >= ThreadCount THEN 0 ELSE i + 1
      BY <2>1, Sizes
    <2>3. next \in Nat /\ next <= ThreadCount /\ 0 \in Numbers /\ 0 <= ThreadCount
      BY Sizes DEF Numbers
    <2>4. got' \in Numbers
      BY <1>8, <2>1, <2>3, FieldTypes DEF Fetch
    <2>5. /\ i' = next /\ next_finished' \in {next, next_finished}
          /\ next_decoding' \in {0, next_decoding}
          /\ UNCHANGED <<avpkt, next_packet, flushes, failures, prev_thread>>
      BY <1>8, <2>2 DEF Fetch, client
    <2> QED
      BY <1>1, <2>3, <2>4, <2>5 DEF Counters
  <1>9. CASE Return
    <2>1. 0 \in Numbers /\ 0 <= ThreadCount
      BY Sizes DEF Numbers
    <2>2. /\ avpkt' = 0 /\ i' = 0 /\ got' = 0
          /\ UNCHANGED <<next_packet, flushes, failures, prev_thread, next_decoding, next_finished>>
      BY <1>9 DEF Return, fctx
    <2> QED
      BY <1>1, <2>1, <2>2 DEF Counters
  <1>10. CASE Flush \/ Free
    <2>1. 0 <= ThreadCount
      BY Sizes
    <2>2. PICK m \in Nat : m = flushes + 1
      BY <1>1 DEF Counters
    <2>3. \/ flushes' = flushes
          \/ flushes' = m /\ m <= MaxFlushes
      BY <1>1, <1>10, <2>2, Sizes DEF Flush, Free, Counters
    <2>4. /\ i' = 0
          /\ UNCHANGED <<avpkt, got, next_packet, failures, prev_thread, next_decoding,
                         next_finished>>
      BY <1>10 DEF Flush, Free, Park, fctx
    <2> QED
      BY <1>1, <2>1, <2>3, <2>4 DEF Counters
  <1>11. CASE Idle \/ Join
    <2>1. i < ThreadCount
      BY <1>1, <1>11 DEF Idle, Join, Parked
    <2>2. PICK m \in Nat : m = i + 1
      BY <1>1 DEF Counters
    <2>3. m <= ThreadCount
      BY <1>1, <2>1, <2>2, Sizes DEF Counters
    <2>4. /\ i' = m
          /\ UNCHANGED <<avpkt, got, next_packet, flushes, failures, prev_thread, next_decoding,
                         next_finished>>
      BY <1>11, <2>2 DEF Idle, Join, fctx, client
    <2> QED
      BY <1>1, <2>3, <2>4 DEF Counters
  <1>12. CASE Flushed \/ Freeing
    <2>1. 0 <= ThreadCount /\ 0 \in Threads
      BY Sizes
    <2>2. /\ i' = 0
          /\ prev_thread' \in {prev_thread, Main} /\ next_decoding' \in {next_decoding, 0}
          /\ next_finished' \in {next_finished, 0}
          /\ UNCHANGED <<avpkt, got, next_packet, flushes, failures>>
      BY <1>12 DEF Flushed, Freeing, client, fctx
    <2> QED
      BY <1>1, <2>1, <2>2 DEF Counters
  <1> QED
    BY <1>3, <1>4, <1>5, <1>6, <1>7, <1>8, <1>9, <1>10, <1>11, <1>12 DEF Client, CallStep

LEMMA CallerOthers ==
  ASSUME Control, Client \/ CallStep \/ SpuriousWakeup
  PROVE  Others' /\ UNCHANGED <<hwaccel_mutex, buffer_mutex, owner, progress>>
  <1>1. Others /\ Types /\ avpkt \in Numbers /\ got \in Numbers /\ kind \in Kinds
    BY DEF Control, Types, Others
  <1>2. UNCHANGED <<hwaccel_mutex, buffer_mutex, owner, progress>>
    BY DEF Client, SendPacket, Drain, Enter, Flush, Free, Park, CallStep, Submit, AwaitSetup,
       UpdateContext, UpdateFails, Transfer, AwaitRequest, ServeBuffer, ServeFormat, Served,
       Submitted, AwaitOutput, Fetch, Return, AwaitIdle, Idle, Flushed, Freeing, Kill, Join,
       Freed, SpuriousWakeup, hwvars, frames
  <1>3. CASE Client \/ SpuriousWakeup
    BY <1>1, <1>2, <1>3 DEF Others, Client, SendPacket, Drain, Enter, Flush, Free, Park, SpuriousWakeup,
       hwvars, history
  <1>4. CASE Submit \/ UpdateContext \/ UpdateFails \/ Served \/ Submitted \/ Fetch
    BY <1>1, <1>2, <1>4 DEF Others, Submit, UpdateContext, UpdateFails, Served, Submitted, Fetch,
       hwvars, history
  <1>5. CASE AwaitSetup \/ AwaitRequest \/ AwaitOutput \/ AwaitIdle
    BY <1>1, <1>2, <1>5, Wakes DEF Others, AwaitSetup, AwaitRequest, AwaitOutput, AwaitIdle, hwvars,
       history
  <1>6. CASE Transfer
    <2>1. p[next_decoding].hwaccel \in Hwaccel
      BY <1>1, <1>6, NextIsIdle, FieldTypes DEF Transfer, Types
    <2> QED
      BY <1>1, <1>2, <1>6, <2>1 DEF Others, Transfer, Numbers, history
  <1>7. CASE ServeBuffer \/ ServeFormat
    <2>1. hwaccel_now' \in Hwaccel
      BY <1>1, <1>7, KindFacts DEF ServeBuffer, ServeFormat, history, Others, Hwaccel
    <2> QED
      BY <1>1, <1>2, <1>7, <2>1, Wakes DEF Others, ServeBuffer, ServeFormat, hwvars, history
  <1>8. CASE Return \/ Flushed
    BY <1>1, <1>2, <1>8 DEF Others, Return, Flushed, hwvars, history, Numbers
  <1>9. CASE Idle \/ Freeing \/ Kill \/ Join \/ Freed
    BY <1>1, <1>2, <1>9 DEF Others, Idle, Freeing, Kill, Join, Freed, hwvars, history, Hwaccel
  <1> QED
    BY <1>2, <1>3, <1>4, <1>5, <1>6, <1>7, <1>8, <1>9 DEF CallStep

LEMMA CallerTypes ==
  ASSUME Control, Client \/ CallStep \/ SpuriousWakeup
  PROVE  Types' /\ Flags'
  <1>1. Types /\ Flags
    BY DEF Control
  <1>2. Types'
    BY <1>1, CallerThreads, CallerCounters, CallerOthers DEF Types, Counters, Others
  <1>3. Flags'
    <2>1. CASE Client \/ SpuriousWakeup
      BY <1>1, <2>1 DEF Flags, Client, SendPacket, Drain, Enter, Flush, Free, Park, SpuriousWakeup,
       fctx, call, client
    <2>2. CASE Submit \/ UpdateContext \/ UpdateFails \/ Served \/ Submitted \/ Transfer
      BY <1>1, <2>2 DEF Flags, Submit, UpdateContext, UpdateFails, Served, Submitted, Transfer,
       fctx, call, client
    <2>3. CASE AwaitSetup \/ AwaitRequest \/ AwaitOutput \/ AwaitIdle \/ ServeBuffer \/ ServeFormat
      BY <1>1, <2>3 DEF Flags, AwaitSetup, AwaitRequest, AwaitOutput, AwaitIdle, ServeBuffer,
       ServeFormat, fctx, call, client
    <2>4. CASE Fetch
      <3>1. p[i].failed \in BOOLEAN
        BY <1>1, <2>4, FieldTypes DEF Fetch, Control, Call, Types
      <3> QED
        BY <1>1, <2>4, <3>1 DEF Flags, Fetch, client
    <2>5. CASE Return \/ Flushed \/ Idle \/ Freeing \/ Kill \/ Join \/ Freed
      BY <1>1, <2>5 DEF Flags, Return, Flushed, Idle, Freeing, Kill, Join, Freed, fctx, call, client
    <2> QED
      BY <2>1, <2>2, <2>3, <2>4, <2>5 DEF CallStep
  <1> QED
    BY <1>2, <1>3

LEMMA CallerLocks ==
  ASSUME Control, Client \/ CallStep \/ SpuriousWakeup
  PROVE  Locks'
  <1>1. /\ Locks /\ async_lock \in BOOLEAN
    BY DEF Control, Flags
  <1>2. hwaccel_mutex' = hwaccel_mutex
    BY CallerOthers
  <1>3. \A u \in Threads : /\ p'[u].hwaccel_serializing = p[u].hwaccel_serializing
                           /\ p'[u].async_serializing = p[u].async_serializing
    BY CallerThreads
  <1>4. CASE async_lock' = async_lock /\ (mpc' \in Outside => mpc \in Outside)
    BY <1>1, <1>2, <1>3, <1>4 DEF Locks
  <1>5. CASE mpc \in Outside /\ mpc' \notin Outside
    BY <1>1, <1>2, <1>3, <1>5 DEF Locks
  <1>6. CASE ~async_lock /\ async_lock' = TRUE
    BY <1>1, <1>2, <1>3, <1>6 DEF Locks
  <1> QED
    BY <1>4, <1>5, <1>6 DEF Client, SendPacket, Drain, Enter, Flush, Free, Park, CallStep, Submit, AwaitSetup,
       UpdateContext, UpdateFails, Transfer, AwaitRequest, ServeBuffer, ServeFormat, Served,
       Submitted, AwaitOutput, Fetch, Return, AwaitIdle, Idle, Flushed, Freeing, Kill, Join,
       Freed, SpuriousWakeup, Outside, Closing

LEMMA CallerToken ==
  ASSUME Control, Client \/ CallStep \/ SpuriousWakeup
  PROVE  Token'
  <1>1. /\ Token /\ Others /\ kind \in Kinds
        /\ \A u \in Threads : HasHwaccel(u) => u = Current /\ mpc # "transfer"
    BY DEF Control, Types, Others, OneSetup, HasHwaccel
  <1>2. kind' = kind /\ wpc' = wpc
    BY CallerThreads
  <1>3. CASE ~Transfer /\ ~ServeBuffer /\ ~ServeFormat
    <2>1. \A u \in Threads : Alike(p'[u], p[u])
      BY <1>3, CallerThreads
    <2>2. \A u \in Threads : HasHwaccel(u)' <=> HasHwaccel(u)
      BY <1>2, <2>1 DEF Alike, HasHwaccel
    <2>3. /\ hwaccel_now' = hwaccel_now
          /\ \/ stash_hwaccel' = stash_hwaccel /\ (mpc = "end" => mpc' = "end")
             \/ mpc' = "end" /\ stash_hwaccel' = "none"
      <3>1. CASE Client
        BY <3>1 DEF Client, SendPacket, Drain, Enter, Flush, Free, Park, history, hwvars
      <3>2. CASE SpuriousWakeup
        BY <3>2 DEF SpuriousWakeup, history, hwvars
      <3>3. CASE Submit \/ AwaitSetup \/ UpdateContext \/ UpdateFails \/ AwaitRequest
        BY <3>3 DEF Submit, AwaitSetup, UpdateContext, UpdateFails, AwaitRequest, history, hwvars
      <3>4. CASE Served \/ Submitted \/ AwaitOutput \/ Fetch \/ Return \/ AwaitIdle
        BY <3>4 DEF Served, Serving, Submitted, AwaitOutput, Fetch, Return, AwaitIdle, history, hwvars
      <3>5. CASE Idle \/ Flushed \/ Freeing \/ Kill \/ Join \/ Freed
        BY <3>5 DEF Idle, Flushed, Freeing, Kill, Join, Freed, history, hwvars
      <3> QED
        BY <1>3, <3>1, <3>2, <3>3, <3>4, <3>5 DEF CallStep
    <2> QED
      BY <1>1, <1>2, <2>1, <2>2, <2>3 DEF Token, Alike
  <1>4. CASE Transfer
    <2>1. \A u \in Threads : ~HasHwaccel(u)
      BY <1>1, <1>4 DEF Transfer
    <2>2. /\ p'[next_decoding].hwaccel = stash_hwaccel /\ stash_hwaccel = hwaccel_now
          /\ HasHwaccel(next_decoding)'
      <3>1. stash_hwaccel = hwaccel_now
        BY <1>1, <1>4, <2>1 DEF Token, Transfer
      <3>2. PICK x \in ThreadType : x = p[next_decoding]
        BY <1>4, TransferFacts
      <3>3. /\ p'[next_decoding] = [x EXCEPT !.hwaccel = stash_hwaccel, !.avpkt = avpkt,
                                             !.state = "SETTING_UP"]
            /\ wpc'[next_decoding] = "wait" /\ next_decoding' = next_decoding
        BY <1>4, <3>2, TransferFacts
      <3>4. /\ p'[next_decoding].hwaccel = stash_hwaccel
            /\ p'[next_decoding].state = "SETTING_UP"
        BY <3>3 DEF ThreadType
      <3> QED
        BY <3>1, <3>3, <3>4 DEF HasHwaccel, SettingUp
    <2>3. \A u \in Threads \ {next_decoding} : ~HasHwaccel(u)'
      BY <1>2, <1>4, <2>1, TransferFacts DEF HasHwaccel
    <2> QED
      BY <1>1, <1>2, <1>4, <2>2, <2>3, TransferFacts DEF Token
  <1>5. CASE ServeBuffer \/ ServeFormat
    <2>1. PICK b \in BOOLEAN, hw \in {"none", kind.hw} :
            /\ p'[next_decoding] = [p[next_decoding] EXCEPT !.failed = b, !.hwaccel = hw,
                                       !.state = "SETTING_UP"]
            /\ \/ ServeBuffer /\ hw = p[next_decoding].hwaccel /\ hwaccel_now' = hwaccel_now
               \/ hwaccel_now' = hw
      BY <1>5, ServeFacts
    <2>2. HasHwaccel(next_decoding) /\ HasHwaccel(next_decoding)'
          /\ p'[next_decoding].hwaccel = hw
      <3>1. wpc[next_decoding] # "setup_finished"
        BY <1>5, ServeFacts DEF Control, ThreadAt, StateAt
      <3> QED
        BY ZenonT(30), <1>2, <1>5, <2>1, <3>1, ServeFacts DEF HasHwaccel, SettingUp, fctx, ThreadType
    <2>3. \A u \in Threads \ {next_decoding} : ~HasHwaccel(u) /\ ~HasHwaccel(u)'
      BY <1>1, <1>2, <1>5, <2>2, ServeFacts DEF HasHwaccel
    <2>4. hwaccel_now' = hw /\ stash_hwaccel' = stash_hwaccel /\ stash_hwaccel = "none"
          /\ next_decoding \in Threads /\ next_decoding' = next_decoding
      BY <1>1, <1>5, <2>1, <2>2, ServeFacts DEF Token, fctx
    <2> QED
      BY <1>1, <1>2, <2>1, <2>2, <2>3, <2>4 DEF Token
  <1> QED
    BY <1>3, <1>4, <1>5

\* One setup at a time.
LEMMA CallerOneSetup ==
  ASSUME Control, Client \/ CallStep \/ SpuriousWakeup
  PROVE  OneSetup'
  <1>1. /\ OneSetup /\ kind' = kind /\ Types /\ Call
        /\ \A u \in Threads : ThreadAt(p[u], wpc[u])
        /\ mpc \in Closing => \A t \in Threads : p[t].state = "INPUT_READY"
    BY CallerThreads DEF Control, Parked
  <1>2. \A u \in Threads : p[u].state \in SettingUp =>
          /\ u = Current /\ mpc # "transfer" /\ (~kind.safe => mpc = "serve")
          /\ ~kind.safe \/ p[u].state = "SETTING_UP"
    BY <1>1 DEF OneSetup, ThreadAt, StateAt, SettingUp
  <1>3. CASE /\ ~Transfer /\ ~ServeBuffer /\ ~ServeFormat
    <2>1. \A u \in Threads : p'[u].state = p[u].state
      BY <1>3, CallerThreads DEF Alike
    <2>2. CASE SpuriousWakeup \/ AwaitSetup \/ AwaitRequest \/ AwaitOutput \/ AwaitIdle \/ Idle
      BY <1>1, <2>1, <2>2 DEF OneSetup, Current, Submitting, Submits, SpuriousWakeup, AwaitSetup,
         AwaitRequest, AwaitOutput, AwaitIdle, Idle, call, client, fctx
    <2>3. CASE SendPacket \/ Drain \/ Flush \/ Free
      <3>1. /\ mpc = "user" /\ prev_thread' = prev_thread /\ next_decoding' = next_decoding
            /\ mpc' \in {"submit", "submitted", "park"}
            /\ mpc' = "submitted" => ~Submits(avpkt)'
        BY <1>1, <2>3 DEF SendPacket, Drain, Flush, Free, Enter, Park, Submits, fctx
      <3>2. Current' = prev_thread /\ Current = prev_thread
        BY <3>1 DEF Current, Submitting
      <3> QED
        BY <1>1, <1>2, <2>1, <3>1, <3>2 DEF OneSetup
    <2>4. CASE Submit
      <3>1. Current' = prev_thread /\ Current = prev_thread /\ mpc = "submit"
            /\ prev_thread' = prev_thread
            /\ mpc' = IF prev_thread = Main THEN "transfer" ELSE "update"
        BY <2>4 DEF Submit, Current, Submitting, fctx
      <3>2. \A u \in Threads : u # Main
        BY Sizes
      <3> QED
        BY <1>1, <1>2, <2>1, <3>1, <3>2 DEF OneSetup
    <2>5. CASE UpdateContext \/ UpdateFails
      <3>1. Current' = prev_thread /\ Current = prev_thread /\ mpc = "update"
            /\ mpc' \in {"transfer", "lock"}
            /\ prev_thread' = prev_thread /\ p[prev_thread].state # "SETTING_UP"
        BY <2>5 DEF UpdateContext, UpdateFails, Current, Submitting, fctx, SetupDone
      <3>2. \A u \in Threads : p[u].state \notin SettingUp
        BY <1>1, <1>2, <3>1
      <3> QED
        BY <1>1, <2>1, <3>1, <3>2 DEF OneSetup
    <2>6. CASE Served
      <3>1. Current = next_decoding /\ p[next_decoding].state \notin SettingUp
            /\ mpc' = "submitted"
        BY <2>6 DEF Served, Serving, Current, Submitting, SettingUp
      <3> QED
        BY <1>2, <2>1, <3>1 DEF OneSetup
    <2>7. CASE Submitted
      <3>1. mpc = "submitted" /\ mpc' \in {"lock", "fetch"}
        BY <2>7 DEF Submitted
      <3>2. Current' = Current
        BY <2>7, <3>1 DEF Submitted, Current, Submitting
      <3> QED
        BY <1>1, <1>2, <2>1, <3>1, <3>2 DEF OneSetup
    <2>8. CASE Fetch \/ Return
      <3>1. mpc \in {"fetch", "lock"} /\ mpc' \in {"fetch", "lock", "user"}
            /\ prev_thread' = prev_thread
        BY <2>8 DEF Fetch, Return, fctx
      <3>2. Current' = Current
        BY <3>1 DEF Current, Submitting
      <3> QED
        BY <1>1, <1>2, <2>1, <3>1, <3>2 DEF OneSetup
    <2>9. CASE Flushed \/ Freeing
      <3>1. \A u \in Threads : p[u].state = "INPUT_READY"
        <4>1. mpc = "park" /\ i = ThreadCount /\ \A u \in Threads : u < ThreadCount
          <5>1. \A u \in Threads : u < ThreadCount
            BY Sizes
          <5> QED
            BY <2>9, <5>1 DEF Flushed, Freeing
        <4> QED
          BY <4>1 DEF Control, Parked
      <3>2. mpc' \in {"user", "kill"}
        BY <2>9 DEF Flushed, Freeing
      <3> QED
        BY <2>1, <3>1, <3>2 DEF OneSetup, SettingUp
    <2>10. CASE Kill \/ Join \/ Freed
      <3>1. mpc \in Closing /\ mpc' \in Closing
        BY <2>10 DEF Kill, Join, Freed, Closing
      <3> QED
        BY <1>1, <2>1, <3>1 DEF OneSetup, SettingUp, Closing
    <2> QED
      BY <1>3, <2>2, <2>3, <2>4, <2>5, <2>6, <2>7, <2>8, <2>9, <2>10 DEF Client, CallStep
  <1>4. CASE Transfer
    <2>1. mpc = "transfer" /\ \A u \in Threads : p[u].state \notin SettingUp
      BY <1>2, <1>4 DEF Transfer
    <2>2. Submits(avpkt)' /\ next_decoding' = next_decoding
      BY <1>1, <1>4, <2>1 DEF Transfer, Call, Submits, call, fctx
    <2>3. Current' = next_decoding
      BY <1>4, <2>2, TransferFacts DEF Current, Submitting
    <2>4. \A u \in Threads \ {next_decoding} : p'[u].state \notin SettingUp
      BY <1>4, <2>1, TransferFacts
    <2> QED
      BY <1>1, <1>4, <2>1, <2>3, <2>4, TransferFacts DEF OneSetup
  <1>5. CASE ServeBuffer \/ ServeFormat
    <2>1. mpc = "serve" /\ mpc' = "serve" /\ next_decoding' = next_decoding
          /\ prev_thread' = prev_thread
      BY <1>5 DEF ServeBuffer, ServeFormat, Serving, fctx
    <2>2. Current' = next_decoding /\ Current = next_decoding
      BY <2>1 DEF Current, Submitting
    <2> QED
      BY <1>1, <1>2, <1>5, <2>1, <2>2, ServeFacts DEF OneSetup
  <1> QED
    BY <1>3, <1>4, <1>5

LEMMA CallerParked ==
  ASSUME Control, Client \/ CallStep \/ SpuriousWakeup
  PROVE  Parked'
  <1>1. /\ Parked /\ wpc' = wpc /\ i \in Nat
        /\ \A u \in Threads : wpc[u] = "exit" => p[u].state = "INPUT_READY"
    BY CallerThreads DEF Control, ThreadAt, StateAt, Types
  <1>2. CASE Transfer \/ ServeBuffer \/ ServeFormat
    <2>1. mpc \notin Closing /\ mpc # "park" /\ mpc' \notin Closing /\ mpc' # "park"
      BY <1>2 DEF Transfer, ServeBuffer, ServeFormat, Serving, Closing
    <2>2. \A u \in Threads : p'[u].die = p[u].die
      <3>1. CASE Transfer
        BY <3>1, TransferFacts DEF ThreadType
      <3>2. CASE ServeBuffer \/ ServeFormat
        BY ZenonT(30), <3>2, ServeFacts DEF ThreadType
      <3> QED
        BY <1>2, <3>1, <3>2
    <2> QED
      BY <1>1, <2>1, <2>2 DEF Parked, Closing
  <1>3. CASE ~Transfer /\ ~ServeBuffer /\ ~ServeFormat
    <2>1. \A u \in Threads : p'[u].state = p[u].state
      BY <1>3, CallerThreads DEF Alike
    <2>2. CASE Kill
      BY <1>1, <2>1, <2>2 DEF Kill, Parked, Closing, call
    <2>3. CASE ~Kill
      <3>1. \A u \in Threads : p'[u].die = p[u].die
        <4>1. CASE p' = p
          BY <4>1
        <4>2. CASE UpdateContext
          BY SMTT(30), <4>2, ContextType, NextIsIdle
          DEF UpdateContext, Control, OneSetup, Types
        <4>3. CASE Fetch
          BY <4>3, FetchFacts DEF ThreadType
        <4>4. CASE Idle
          BY <4>4, Sizes DEF Idle, Control, Types, ThreadType
        <4>5. CASE Flushed
          BY <4>5, FlushedFacts
        <4>6. CASE Freeing
          BY <4>6, NewestType DEF Freeing, Control
        <4> QED
          BY <1>3, <2>3, <4>1, <4>2, <4>3, <4>4, <4>5, <4>6
          DEF Client, SendPacket, Drain, Enter, Flush, Free, Park, CallStep, Submit, AwaitSetup,
          UpdateFails, AwaitRequest, Served, Submitted, AwaitOutput, Return, AwaitIdle, Join,
          Freed, SpuriousWakeup
      <3>2. CASE mpc' = mpc /\ i' = i
        BY <1>1, <2>1, <3>1, <3>2 DEF Parked
      <3>3. CASE mpc \notin Closing /\ mpc' \notin Closing /\ mpc' # "park"
        BY <1>1, <2>1, <3>1, <3>3 DEF Parked, Closing
      <3>4. CASE Flush \/ Free
        <4>1. mpc' = "park" /\ i' = 0 /\ mpc = "user"
          BY <3>4 DEF Flush, Free, Park
        <4>2. \A t \in Threads : ~(t < 0)
          BY Sizes
        <4> QED
          BY <1>1, <2>1, <3>1, <4>1, <4>2 DEF Parked, Closing
      <3>5. CASE Idle
        <4>1. /\ mpc' = "park" /\ i' = i + 1 /\ mpc = "park" /\ p[i].state = "INPUT_READY"
          BY <3>5 DEF Idle
        <4>2. \A t \in Threads : t < i + 1 => t < i \/ t = i
          BY <1>1, Sizes
        <4> QED
          BY <1>1, <2>1, <3>1, <4>1, <4>2 DEF Parked, Closing
      <3>6. CASE Flushed \/ Freeing
        <4>1. \A t \in Threads : p[t].state = "INPUT_READY"
          <5>1. mpc = "park" /\ i = ThreadCount /\ \A u \in Threads : u < ThreadCount
            <6>1. \A u \in Threads : u < ThreadCount
              BY Sizes
            <6> QED
              BY <3>6, <6>1 DEF Flushed, Freeing
          <5> QED
            BY <1>1, <5>1 DEF Parked
        <4>2. mpc = "park" /\ mpc' \in {"user", "kill"}
          BY <3>6 DEF Flushed, Freeing
        <4> QED
          BY <1>1, <2>1, <3>1, <4>1, <4>2 DEF Parked, Closing
      <3>7. CASE Join \/ Freed
        <4>1. mpc \in Closing /\ mpc' \in {"kill", "end"}
          BY <3>7 DEF Join, Freed, Closing
        <4> QED
          BY <1>1, <2>1, <3>1, <4>1 DEF Parked, Closing
      <3> QED
        <4>1. CASE SendPacket \/ Drain \/ Submit \/ UpdateContext \/ UpdateFails
          BY <3>3, <4>1 DEF SendPacket, Drain, Enter, Submit, UpdateContext, UpdateFails, Closing
        <4>2. CASE AwaitSetup \/ AwaitRequest \/ AwaitOutput \/ AwaitIdle \/ SpuriousWakeup
          BY <3>2, <4>2 DEF AwaitSetup, AwaitRequest, AwaitOutput, AwaitIdle, SpuriousWakeup, call
        <4>3. CASE Served \/ Submitted \/ Fetch \/ Return
          BY <3>3, <4>3 DEF Served, Serving, Submitted, Fetch, Return, Closing
        <4> QED
          BY <1>3, <2>3, <3>4, <3>5, <3>6, <3>7, <4>1, <4>2, <4>3 DEF Client, CallStep
    <2> QED
      BY <2>2, <2>3
  <1> QED
    BY <1>2, <1>3

\* Turns.
LEMMA TurnFacts ==
  ASSUME NEW t \in Threads, NEW f \in Threads
  PROVE  /\ Turn(t, f) \in Nat /\ Turn(t, f) <= ThreadCount - 1
         /\ Turn(t, f) = 0 <=> t = f
         /\ \A u \in Threads : Turn(u, f) = Turn(t, f) => u = t
  BY Sizes DEF Turn

After(n) == IF n + 1 >= ThreadCount THEN 0 ELSE n + 1

LEMMA TurnAfter ==
  ASSUME NEW n \in Threads, NEW f \in Threads
  PROVE  /\ After(n) \in Threads
         /\ After(n) # f => Turn(After(n), f) = Turn(n, f) + 1
         /\ After(n) = f => Turn(n, f) = ThreadCount - 1
  BY Sizes DEF Turn, After

LEMMA TurnShift ==
  ASSUME NEW n \in Threads, NEW f \in Threads, NEW t \in Threads, Turn(n, f) < Turn(t, f)
  PROVE  Turn(t, After(n)) = Turn(t, f) - Turn(n, f) - 1
  BY Sizes DEF Turn, After

LEMMA TurnWraps ==
  ASSUME NEW n \in Threads, NEW f \in Threads, NEW t \in Threads, Turn(n, f) < Turn(t, f)
  PROVE  Turn(f, After(n)) = ThreadCount - 1 - Turn(n, f)
  BY Sizes DEF Turn, After

LEMMA CallerCall ==
  ASSUME Control, Client \/ CallStep \/ SpuriousWakeup
  PROVE  Call'
  <1>1. /\ Call /\ Counters /\ kind' = kind /\ Flags /\ kind \in Kinds
        /\ mpc \in Calling => i = next_finished
    BY CallerThreads DEF Control, Counters, Types, Call
  <1> USE DEF Submits
  <1>2. CASE /\ UNCHANGED <<avpkt, i, draining, prev_thread, next_decoding, next_finished, delaying>>
             /\ \/ mpc' = mpc
                \/ mpc \in Closing /\ mpc' \in Closing
                \/ mpc \in {"submit", "update"} /\ mpc' \in {"update", "transfer", "lock"}
                \/ mpc = "transfer" /\ mpc' \in {"submitted", "serve"}
                \/ mpc = "serve" /\ mpc' = "submitted"
    BY <1>1, <1>2 DEF Call, Calling, Closing
  <1>3. CASE AwaitSetup \/ UpdateContext \/ Transfer \/ AwaitRequest \/ ServeBuffer
             \/ ServeFormat \/ AwaitOutput \/ SpuriousWakeup \/ AwaitIdle
    BY <1>2, <1>3 DEF AwaitSetup, UpdateContext, Transfer, AwaitRequest, ServeBuffer,
       ServeFormat, AwaitOutput, SpuriousWakeup, AwaitIdle, call, client, fctx
  <1>4. CASE Served \/ Submit \/ Kill \/ Freed \/ UpdateFails
    BY <1>2, <1>4 DEF Served, Serving, Submit, Kill, Freed, UpdateFails, call, client, fctx, Closing
  <1>5. CASE Idle \/ Join \/ Freeing \/ Flush \/ Free
    <2>1. /\ UNCHANGED <<avpkt, draining, prev_thread, next_decoding, next_finished, delaying>>
          /\ mpc' \in {"park"} \cup Closing /\ mpc # "fetch"
      BY <1>5 DEF Idle, Join, Freeing, Flush, Free, Park, call, client, fctx, Closing
    <2> QED
      BY <1>1, <2>1 DEF Call, Calling, Closing
  <1>6. CASE SendPacket \/ Drain
    <2>1. /\ i' = next_finished /\ mpc = "user" /\ (mpc' = IF Submits(avpkt') THEN "submit" ELSE "submitted")
          /\ UNCHANGED <<prev_thread, next_decoding, next_finished, delaying>>
          /\ avpkt' = 0 <=> draining'
          /\ draining' = draining \/ draining' = TRUE
      BY <1>1, <1>6, Sizes DEF SendPacket, Drain, Enter, fctx, Counters
    <2> QED
      BY <1>1, <2>1 DEF Call, Calling
  <1>7. CASE Submitted
    <2>1. /\ mpc = "submitted" /\ UNCHANGED <<avpkt, i, draining, next_finished>>
          /\ i = next_finished /\ next_finished \in Threads /\ next_decoding < ThreadCount
          /\ (avpkt = 0 <=> draining)
      BY <1>1, <1>7, Sizes DEF Submitted, call, client, Call, Calling, Counters
    <2>2. PICK m \in Nat : m = next_decoding'
      BY CallerCounters DEF Counters
    <2>3. /\ delaying' => delaying /\ ~(m > ThreadCount - 1 - (IF kind.ffv1 THEN 1 ELSE 0))
          /\ mpc' = IF delaying' /\ avpkt # 0 THEN "lock" ELSE "fetch"
      BY <1>1, <1>7, <2>2 DEF Submitted, Filled, Flags
    <2>4. delaying' => m < ThreadCount
      BY <1>1, <2>2, <2>3, Sizes, KindFacts
    <2>5. \/ Submits(avpkt) /\ prev_thread' = next_decoding /\ m = next_decoding + 1
          \/ ~Submits(avpkt) /\ prev_thread' = prev_thread /\ m = next_decoding
      BY <1>7, <2>2 DEF Submitted
    <2>6. prev_thread' = Main => prev_thread = Main /\ ~Submits(avpkt) /\ m = next_decoding
      BY <1>1, <2>1, <2>5, Sizes DEF Counters
    <2>7. prev_thread' # Main =>
            \/ m = prev_thread' + 1
            \/ m = 0 /\ prev_thread' = ThreadCount - 1
      BY <1>1, <2>1, <2>5 DEF Call
    <2>8. m = ThreadCount => mpc' = "fetch" /\ Submits(avpkt)
      BY <1>1, <2>1, <2>3, <2>4, <2>5, Sizes DEF Call, Counters
    <2> QED
      BY <1>1, <2>1, <2>2, <2>3, <2>6, <2>7, <2>8 DEF Call, Calling
  <1>8. CASE Fetch
    <2>1. /\ mpc = "fetch" /\ i \in Threads /\ (delaying => avpkt = 0) /\ (avpkt = 0 <=> draining)
          /\ UNCHANGED <<avpkt, draining, prev_thread, delaying>>
          /\ i' = After(i) /\ After(i) \in Threads
      BY <1>1, <1>8, TurnAfter DEF Fetch, Call, client, After
    <2>2. \/ /\ UNCHANGED <<mpc, next_decoding, next_finished>>
          \/ /\ mpc' = "lock" /\ next_finished' = After(i)
             /\ next_decoding' = IF next_decoding >= ThreadCount THEN 0 ELSE next_decoding
      BY <1>8 DEF Fetch, After
    <2>3. CASE UNCHANGED <<mpc, next_decoding, next_finished>>
      BY <1>1, <2>1, <2>3 DEF Call, Calling
    <2>4. CASE /\ mpc' = "lock" /\ next_finished' = After(i)
               /\ next_decoding' = IF next_decoding >= ThreadCount THEN 0 ELSE next_decoding
      <3>1. PICK m \in Nat : m = next_decoding'
        BY CallerCounters DEF Counters
      <3>2. m = IF next_decoding = ThreadCount THEN 0 ELSE next_decoding
        BY <1>1, <2>4, <3>1, Sizes DEF Counters
      <3>3. m < ThreadCount /\ m # ThreadCount
        BY <1>1, <3>2, Sizes DEF Counters
      <3>4. prev_thread # Main =>
              \/ m = prev_thread + 1
              \/ m = 0 /\ prev_thread = ThreadCount - 1
        <4>1. CASE next_decoding = ThreadCount
          BY <1>1, <3>2, <4>1, Sizes DEF Call, Counters
        <4>2. CASE next_decoding # ThreadCount
          BY <1>1, <3>2, <4>2 DEF Call
        <4> QED
          BY <4>1, <4>2
      <3>5. prev_thread = Main => m = 0
        BY <1>1, <3>2, Sizes DEF Call
      <3> QED
        BY <1>1, <2>1, <2>4, <3>1, <3>3, <3>4, <3>5 DEF Call, Calling
    <2> QED
      BY <2>2, <2>3, <2>4
  <1>9. CASE Return
    BY <1>1, <1>9 DEF Return, Call, Calling, fctx
  <1>10. CASE Flushed
    <2>1. 0 # ThreadCount
      BY Sizes
    <2>2. /\ mpc' = "user" /\ next_decoding' = 0 /\ next_finished' = 0 /\ prev_thread' = Main
      BY <1>10 DEF Flushed
    <2> QED
      BY <2>1, <2>2 DEF Call, Calling
  <1> QED
    BY <1>3, <1>4, <1>5, <1>6, <1>7, <1>8, <1>9, <1>10 DEF Client, CallStep

LEMMA CallerInTurn ==
  ASSUME Control, Client \/ CallStep \/ SpuriousWakeup
  PROVE  InTurn'
  <1>1. /\ InTurn /\ Call /\ Counters /\ kind' = kind
        /\ \A x, f : Turn(x, f)' = Turn(x, f)
    BY CallerThreads DEF Control, Counters, Types, Turn
  <1>2. CASE mpc' \in {"park"} \cup Closing
    BY <1>2 DEF InTurn, Calling, Closing
  <1>3. CASE /\ \A u \in Threads : ~Clean(u)' => ~Clean(u)
             /\ UNCHANGED <<next_decoding, next_finished>>
             /\ \/ mpc' = mpc /\ UNCHANGED <<avpkt, i, prev_thread>>
                \/ /\ mpc \in Calling \cup {"user", "lock"} /\ mpc' \in Calling \cup {"user", "lock"}
                   /\ Submitting' <=> Submitting
    BY <1>1, <1>3 DEF InTurn, Submitting, Submits, Calling, Turn
  <1>4. CASE SpuriousWakeup \/ AwaitSetup \/ AwaitRequest \/ AwaitOutput \/ AwaitIdle
    BY <1>1, <1>3, <1>4 DEF SpuriousWakeup, AwaitSetup, AwaitRequest, AwaitOutput, AwaitIdle,
       Clean, call, client, fctx
  <1>5. CASE Submit \/ UpdateFails
    BY <1>1, <1>3, <1>5 DEF Submit, UpdateFails, Clean, call, client, fctx, Calling, Submitting
  <1>6. CASE Served
    <2>1. Submits(avpkt)
      BY <1>1, <1>6 DEF Served, Serving, Call
    <2> QED
      BY <1>1, <1>3, <1>6, <2>1 DEF Served, Serving, Clean, call, client, fctx, Calling, Submitting, Submits
  <1>7. CASE UpdateContext
    <2>1. \A u \in Threads : ~Clean(u)' => ~Clean(u)
      <3>1. prev_thread \in Threads /\ next_decoding \in Threads /\ p \in [Threads -> ThreadType]
        BY <1>1, <1>7, NextIsIdle DEF UpdateContext, Counters, Control, OneSetup, Types
      <3>2. p' = CopyContext(next_decoding, prev_thread)
        BY <1>7 DEF UpdateContext
      <3> QED
        BY <3>1, <3>2, ContextType DEF Clean, Alike
    <2> QED
      BY <1>3, <1>7, <2>1 DEF UpdateContext, call, fctx, Calling, Submitting
  <1>8. CASE Return
    BY <1>3, <1>8 DEF Return, Clean, fctx, Calling, Submitting
  <1>9. CASE SendPacket \/ Drain
    <2>1. /\ mpc = "user" /\ mpc' \in {"submit", "submitted"} /\ p' = p
          /\ mpc' = "submitted" => ~Submits(avpkt)'
          /\ UNCHANGED <<next_decoding, next_finished>>
      BY <1>1, <1>9 DEF SendPacket, Drain, Enter, fctx, Submits
    <2>2. ~Submitting /\ ~Submitting'
      BY <2>1 DEF Submitting
    <2> QED
      BY <1>3, <2>1, <2>2 DEF Clean, Calling
  <1>10. CASE Transfer
    <2>1. /\ mpc = "transfer" /\ UNCHANGED <<next_decoding, next_finished>>
          /\ Submits(avpkt)' /\ mpc' \in {"submitted", "serve"}
      BY <1>1, <1>10, TransferFacts DEF Transfer, call, fctx, Submits, Call
    <2>2. ~Submitting /\ Submitting'
      BY <2>1 DEF Submitting
    <2>3. \A u \in Threads \ {next_decoding} : ~Clean(u)' => ~Clean(u)
      BY <1>10, TransferFacts DEF Clean
    <2> QED
      BY <1>1, <2>1, <2>2, <2>3 DEF InTurn, Calling, Turn
  <1>11. CASE ServeBuffer \/ ServeFormat
    <2>1. /\ mpc' = mpc
          /\ UNCHANGED <<avpkt, i, prev_thread, next_decoding, next_finished>>
      BY <1>11, ServeFacts DEF call, fctx
    <2>2. \A u \in Threads : ~Clean(u)' => ~Clean(u)
      BY <1>11, ServeFacts DEF Clean
    <2> QED
      BY <1>3, <2>1, <2>2
  <1>12. CASE Submitted
    <2>1. /\ mpc = "submitted" /\ UNCHANGED <<avpkt, i, next_finished>> /\ p' = p
          /\ mpc' = IF delaying' /\ avpkt # 0 THEN "lock" ELSE "fetch"
          /\ i = next_finished /\ next_finished \in Threads /\ next_decoding \in Threads
          /\ Submits(avpkt)' <=> Submits(avpkt)
          /\ delaying' => delaying
      <3>1. /\ mpc = "submitted" /\ UNCHANGED <<avpkt, i, next_finished>> /\ p' = p
            /\ mpc' = IF delaying' /\ avpkt # 0 THEN "lock" ELSE "fetch"
            /\ delaying' => delaying
        BY <1>12 DEF Submitted, call
      <3>2. i = next_finished /\ next_finished \in Threads /\ next_decoding \in Threads
        BY <1>1, <3>1, Sizes DEF Call, Calling, Counters
      <3> QED
        BY <1>1, <3>1, <3>2 DEF Submits
    <2>2. \A t \in Threads : ~Clean(t) =>
            \/ Turn(t, next_finished) < Turn(next_decoding, next_finished)
            \/ t = next_decoding /\ Submits(avpkt)
      BY <1>1, <2>1 DEF InTurn, Submitting, Calling
    <2>3. \A t \in Threads : Clean(t)' <=> Clean(t)
      BY <2>1 DEF Clean
    <2>4. \A t \in Threads : /\ Turn(t, next_finished) \in Nat
                            /\ Turn(next_finished, next_finished) = 0
      BY <2>1, TurnFacts
    <2>5. CASE mpc' = "fetch"
      <3>1. CASE Submits(avpkt)
        <4>1. prev_thread' = next_decoding
          BY <1>12, <3>1 DEF Submitted
        <4>2. \A t \in Threads : ~Clean(t) =>
                Turn(t, next_finished) <= Turn(next_decoding, next_finished)
          BY <2>1, <2>2, <2>4
        <4> QED
          BY <1>1, <2>1, <2>3, <2>4, <2>5, <3>1, <4>1, <4>2 DEF InTurn, Calling, Turn
      <3>2. CASE ~Submits(avpkt)
        <4>1. next_decoding' = next_decoding
          BY <1>12, <3>2 DEF Submitted
        <4> QED
          BY <1>1, <2>1, <2>2, <2>3, <2>4, <2>5, <3>2, <4>1 DEF InTurn, Calling, Turn
      <3> QED
        BY <3>1, <3>2
    <2>6. CASE mpc' = "lock"
      <3>1. delaying' /\ avpkt # 0 /\ delaying /\ ~draining
        BY <1>1, <2>1, <2>6 DEF Call, Calling
      <3>2. next_finished = 0 /\ Submits(avpkt)
        BY <1>1, <3>1 DEF Call, Submits
      <3>3. PICK m \in Nat : m = next_decoding' /\ m = next_decoding + 1
        BY <1>1, <1>12, <3>2 DEF Submitted, Counters
      <3>4. m < ThreadCount
        BY <1>12, <2>6, <3>3, CallerCall, CallerCounters, Sizes DEF Call, Counters
      <3>5. \A t \in Threads : ~Clean(t) => Turn(t, 0) < Turn(m, 0)
        <4>1. \A t \in Threads : Turn(t, 0) = t /\ Turn(m, 0) = m
          BY <3>4, Sizes DEF Turn
        <4>2. \A t \in Threads : ~Clean(t) => t < next_decoding \/ t = next_decoding
          BY <2>1, <2>2, <3>2, <4>1, Sizes DEF Turn
        <4> QED
          BY <2>1, <3>3, <4>1, <4>2, Sizes
      <3> QED
        BY <2>1, <2>3, <2>6, <3>2, <3>3, <3>5 DEF InTurn, Calling, Turn
    <2> QED
      BY <2>1, <2>5, <2>6
  <1>13. CASE Fetch
    <2>1. /\ mpc = "fetch" /\ i \in Threads /\ next_finished \in Threads /\ avpkt' = avpkt
          /\ prev_thread' = prev_thread /\ (Submits(avpkt)' <=> Submits(avpkt))
          /\ i' = After(i) /\ After(i) \in Threads
          /\ p[i].state = "INPUT_READY"
      BY <1>1, <1>13, TurnAfter DEF Fetch, Call, Counters, client, After, Submits, OutputReady
    <2>2. \A t \in Threads : ~Clean(t)' => ~Clean(t) /\ t # i
      <3> SUFFICES ASSUME NEW t \in Threads, ~Clean(t)'
                   PROVE  ~Clean(t) /\ t # i
        OBVIOUS
      <3>1. ASSUME t = i
            PROVE  FALSE
        <4>1. PICK x \in ThreadType : x = p[i]
          BY <1>13, FetchFacts
        <4>2. p'[i] = [x EXCEPT !.frame = 0, !.got_frame = FALSE, !.failed = FALSE]
              /\ x.state = "INPUT_READY"
          BY <1>13, <2>1, <4>1, FetchFacts
        <4>3. /\ p'[i].state = "INPUT_READY" /\ p'[i].frame = 0 /\ ~p'[i].got_frame
              /\ ~p'[i].failed
          BY <4>2 DEF ThreadType
        <4> QED
          BY <3>1, <4>3 DEF Clean
      <3> QED
        BY <1>13, <3>1, FetchFacts DEF Clean
    <2>3. \A t \in Threads : ~Clean(t)' =>
            /\ Turn(i, next_finished) < Turn(t, next_finished)
            /\ IF Submits(avpkt)
               THEN Turn(t, next_finished) <= Turn(prev_thread, next_finished)
               ELSE Turn(t, next_finished) < Turn(next_decoding, next_finished)
      <3> TAKE t \in Threads
      <3>1. Turn(i, next_finished) \in Nat /\ Turn(t, next_finished) \in Nat
            /\ (Turn(i, next_finished) = Turn(t, next_finished) => t = i)
        BY <2>1, TurnFacts
      <3> QED
        BY <1>1, <2>1, <2>2, <3>1 DEF InTurn
    <2>4. CASE UNCHANGED <<mpc, next_decoding, next_finished>>
      <3>1. i' # next_finished
        BY <1>13, <2>1, <2>4 DEF Fetch, After
      <3>2. Turn(After(i), next_finished) = Turn(i, next_finished) + 1
        BY <2>1, <3>1, TurnAfter
      <3>3. \A t \in Threads : ~Clean(t)' => Turn(After(i), next_finished) <= Turn(t, next_finished)
        <4> TAKE t \in Threads
        <4>1. Turn(i, next_finished) \in Nat /\ Turn(t, next_finished) \in Nat
          BY <2>1, TurnFacts
        <4> QED
          BY <2>3, <3>2, <4>1
      <3> QED
        BY <2>1, <2>3, <2>4, <3>3 DEF InTurn, Calling, Turn
    <2>5. CASE /\ mpc' = "lock" /\ next_finished' = After(i)
               /\ next_decoding' = IF next_decoding >= ThreadCount THEN 0 ELSE next_decoding
      <3>1. PICK m \in Threads : m = IF next_decoding >= ThreadCount THEN 0 ELSE next_decoding
        BY <1>1, Sizes DEF Counters
      <3>2. \A t \in Threads : ~Clean(t)' => Turn(t, After(i)) < Turn(m, After(i))
        <4> SUFFICES ASSUME NEW t \in Threads, ~Clean(t)'
                     PROVE  Turn(t, After(i)) < Turn(m, After(i))
          OBVIOUS
        <4>1. Turn(i, next_finished) < Turn(t, next_finished)
          BY <2>3
        <4>2. Turn(t, After(i)) = Turn(t, next_finished) - Turn(i, next_finished) - 1
          BY <2>1, <4>1, TurnShift
        <4>3. Turn(t, next_finished) < Turn(m, next_finished) \/ m = next_finished
          <5>1. CASE Submits(avpkt)
            <6>1. prev_thread # Main /\ prev_thread \in Threads
              BY <1>1, <2>1, <5>1 DEF Call, Counters
            <6>2. m = After(prev_thread)
              BY <1>1, <3>1, <6>1, Sizes DEF Call, After, Counters
            <6>3. Turn(t, next_finished) <= Turn(prev_thread, next_finished)
              BY <2>3, <5>1
            <6>4. Turn(t, next_finished) \in Nat /\ Turn(prev_thread, next_finished) \in Nat
              BY <2>1, <6>1, TurnFacts
            <6> QED
              BY <2>1, <6>1, <6>2, <6>3, <6>4, TurnAfter
          <5>2. CASE ~Submits(avpkt)
            <6>1. m = next_decoding
              BY <1>1, <2>1, <3>1, <5>2, Sizes DEF Call, Counters
            <6> QED
              BY <2>3, <5>2, <6>1
          <5> QED
            BY <5>1, <5>2
        <4>4. /\ Turn(i, next_finished) \in Nat /\ Turn(t, next_finished) \in Nat
              /\ Turn(m, next_finished) \in Nat /\ Turn(t, next_finished) <= ThreadCount - 1
          BY <2>1, <3>1, TurnFacts
        <4>5. CASE Turn(t, next_finished) < Turn(m, next_finished)
          <5>1. Turn(m, After(i)) = Turn(m, next_finished) - Turn(i, next_finished) - 1
            BY <2>1, <4>1, <4>4, <4>5, TurnShift
          <5> QED
            BY <4>2, <4>4, <4>5, <5>1
        <4>6. CASE m = next_finished
          \* It is the turn of m after all the threads from next_finished.
          <5>1. Turn(m, After(i)) = ThreadCount - 1 - Turn(i, next_finished)
            BY <2>1, <4>1, <4>6, TurnWraps
          <5> QED
            BY <4>2, <4>4, <5>1, Sizes
        <4> QED
          BY <4>3, <4>5, <4>6
      <3> QED
        BY <2>5, <3>1, <3>2 DEF InTurn, Calling, Turn
    <2> QED
      BY <1>13, <2>4, <2>5 DEF Fetch, After
  <1>14. CASE Flushed
    <2>1. \A u \in Threads : Clean(u)'
      <3>1. mpc = "park" /\ i = ThreadCount /\ \A u \in Threads : u < ThreadCount
        <4>1. \A u \in Threads : u < ThreadCount
          BY Sizes
        <4> QED
          BY <1>14, <4>1 DEF Flushed
      <3>2. \A u \in Threads : p[u].state = "INPUT_READY"
        BY <3>1 DEF Control, Parked
      <3> QED
        BY <1>14, <3>2, FlushedFacts DEF Clean, Alike
    <2>2. mpc' = "user"
      BY <1>14 DEF Flushed
    <2> QED
      BY <2>1, <2>2 DEF InTurn
  <1>15. CASE Flush \/ Free \/ Idle \/ Freeing \/ Kill \/ Join \/ Freed
    BY <1>2, <1>15 DEF Flush, Free, Park, Idle, Freeing, Kill, Join, Freed, Closing
  <1> QED
    BY <1>4, <1>5, <1>6, <1>7, <1>8, <1>9, <1>10, <1>11, <1>12, <1>13, <1>14, <1>15
    DEF Client, CallStep

\* A thread that ends is idle.
LEMMA DieControl ==
  ASSUME Control, NEW t \in Threads, Die(t)
  PROVE  Control'
  <1>1. /\ UNCHANGED <<kind, mpc, avpkt, i, got, err, next_packet, draining, draining_done,
                       closing, flushes, failures, prev_thread, next_decoding, next_finished,
                       delaying, async_lock, stash_hwaccel, hwaccel_mutex, buffer_mutex, p,
                       asleep, owner, progress, taken, made, returned, hwaccel_now>>
        /\ wpc[t] = "wait" /\ p[t].die /\ wpc' = [wpc EXCEPT ![t] = "exit"]
    BY DEF Die, Goto, kept, call, client, fctx, hwvars, frames, history
  <1>2. /\ wpc' \in [Threads -> PCs] /\ wpc'[t] = "exit"
        /\ \A u \in Threads \ {t} : wpc'[u] = wpc[u]
    BY <1>1 DEF Control, Types, PCs
  <1>3. mpc \in Closing /\ p[t].state = "INPUT_READY" /\ ThreadAt(p[t], wpc[t])
    BY <1>1 DEF Control, Parked
  <1>4. Flags' /\ Types'
    BY <1>1, <1>2 DEF Control, Flags, Types
  <1>5. OneSetup' /\ Call' /\ InTurn'
    BY <1>1 DEF Control, OneSetup, Call, InTurn, Current, Submitting, Submits, Clean, Turn
  <1>6. Parked'
    BY <1>1, <1>2, <1>3 DEF Control, Parked
  <1>7. Locks'
    BY <1>1 DEF Control, Locks
  <1>8. Token'
    BY <1>1, <1>2, <1>3 DEF Control, Token, HasHwaccel, SettingUp
  <1>9. ThreadAt(p[t], wpc[t])'
    BY <1>1, <1>2, <1>3 DEF ThreadAt, StateAt, BackAt, LocksAt, OutcomeAt, FinishingSetup
  <1>10. \A u \in Threads : ThreadAt(p[u], wpc[u])'
    BY <1>1, <1>2, <1>9 DEF Control, ThreadAt, StateAt, BackAt, LocksAt, OutcomeAt
  <1> QED
    BY <1>4, <1>5, <1>6, <1>7, <1>8, <1>10 DEF Control

LEMMA InitControl ==
  ASSUME Init
  PROVE  Control
  <1> DEFINE x == [state |-> "INPUT_READY", avpkt |-> 0, ctx |-> NewContext,
                   hwaccel |-> "none", hwaccel_serializing |-> FALSE,
                   async_serializing |-> FALSE, frame |-> 0, got_frame |-> FALSE,
                   failed |-> FALSE, outcome |-> "none", out |-> 0, await |-> 0,
                   back |-> "wait", die |-> FALSE]
  <1>1. x \in ThreadType
    BY DEF ThreadType, States, Numbers, Contexts, NewContext, Hwaccel, PCs
  <1>2. /\ p \in [Threads -> ThreadType] /\ \A u \in Threads : p[u] = x
        /\ wpc \in [Threads -> PCs] /\ \A u \in Threads : wpc[u] = "wait"
    BY <1>1 DEF Init, PCs
  <1>3. Flags
    BY DEF Init, Flags
  <1>4. Types
    <2>1. owner \in [Packets -> Threads \cup {Main}] /\ asleep \in SUBSET (Threads \cup {Main})
      BY DEF Init
    <2>2. Counters /\ Others
      BY Sizes DEF Init, Counters, Others, Numbers, Hwaccel
    <2>3. kind \in Kinds /\ hwaccel_mutex = Main /\ buffer_mutex = Main /\ progress = {}
      BY DEF Init
    <2> QED
      BY <1>2, <2>1, <2>2, <2>3 DEF Types, Counters, Others
  <1>5. \A u \in Threads : Clean(u)
    BY <1>2 DEF Clean
  <1>6. OneSetup /\ InTurn
    BY <1>2, <1>5 DEF Init, OneSetup, SettingUp, InTurn
  <1>7. Call
    BY Sizes DEF Init, Call, Calling
  <1>8. Parked /\ Locks /\ Token
    BY <1>2, Sizes, KindFacts DEF Init, Parked, Closing, Locks, Token, HasHwaccel, SettingUp
  <1>9. \A u \in Threads : ThreadAt(p[u], wpc[u])
    BY <1>2 DEF ThreadAt, StateAt, BackAt, LocksAt, OutcomeAt, FinishingSetup
  <1> QED
    BY <1>3, <1>4, <1>6, <1>7, <1>8, <1>9 DEF Control

LEMMA NextControl ==
  ASSUME Control, [Next]_vars
  PROVE  Control'
  <1>1. CASE Client \/ CallStep \/ SpuriousWakeup
    BY <1>1, CallerThreads, CallerTypes, CallerOneSetup, CallerCall, CallerInTurn,
       CallerParked, CallerLocks, CallerToken DEF Control
  <1>2. ASSUME NEW t \in Threads, WorkerStep(t)
        PROVE  Control'
    <2>1. CASE Die(t)
      BY <2>1, DieControl
    <2>2. CASE ~Die(t)
      <3>1. Steps(t)
        BY <1>2, <2>2, WorkerSteps
      <3> QED
        BY <1>2, <3>1, StepsKeepRing, WorkerTypes, WorkerLocks, WorkerToken DEF Control, Ring
    <2> QED
      BY <2>1, <2>2
  <1>3. CASE Ended \/ UNCHANGED vars
    <2>1. UNCHANGED <<kind, mpc, avpkt, i, got, err, next_packet, draining, draining_done,
                      closing, flushes, failures, prev_thread, next_decoding, next_finished,
                      delaying, async_lock, stash_hwaccel, hwaccel_mutex, buffer_mutex, p, wpc,
                      asleep, owner, progress, taken, made, returned, hwaccel_now>>
      BY <1>3 DEF Ended, vars, call, client, fctx, hwvars, frames, history
    <2> QED
      BY <2>1 DEF Control, Flags, Types, OneSetup, Call, InTurn, Parked, Locks, Token, ThreadAt,
         StateAt, BackAt, LocksAt, OutcomeAt, Current, Submitting, Submits, Clean, Turn, HasHwaccel
  <1> QED
    BY <1>1, <1>2, <1>3 DEF Next

\* Control holds in every reachable state, whatever the number of threads.
THEOREM Invariance == Spec => []Control
  <1>1. Init => Control
    BY InitControl
  <1>2. Control /\ [Next]_vars => Control'
    BY NextControl
  <1> QED
    BY <1>1, <1>2, PTL DEF Spec

\* The types of pthread_frame.c's fields; and fctx->threads is indexed by next_decoding
\* and next_finished (pthread_frame.c:538, :544).
THEOREM TypeCorrect == Spec => []TypeOK
  <1>1. Control => TypeOK
    BY Sizes DEF Control, Flags, Types, TypeOK, Numbers
  <1> QED
    BY <1>1, Invariance, PTL

\* The assertions of pthread_frame.c, and its index of fctx->threads, cannot fail.
THEOREM AssertionsHold == Spec => []Assertions
  <1>1. Control => Assertions
    <2> SUFFICES ASSUME Control
                 PROVE  Assertions
      OBVIOUS
    <2>1. mpc = "submit" => next_decoding < ThreadCount
      BY Sizes DEF Control, Call, Types
    <2>2. mpc = "transfer" => p[next_decoding].hwaccel = "none"
      <3>1. CASE mpc = "transfer"
        BY <3>1, NextIsIdle, IdleThread DEF Clean, Closing
      <3> QED
        BY <3>1
    <2>3. ASSUME NEW t \in Threads
          PROVE  /\ wpc[t] = "decode" => ~p[t].hwaccel_serializing
                 /\ wpc[t] = "stash" => stash_hwaccel = "none"
                 /\ wpc[t] \in {"async_unlock", "ready"} => p[t].hwaccel = "none"
                 /\ wpc[t] = "async_unlock" => async_lock
      <3>1. ThreadAt(p[t], wpc[t])
        BY DEF Control
      <3>2. wpc[t] = "stash" => HasHwaccel(t)
        BY <3>1 DEF ThreadAt, StateAt, FinishingSetup, HasHwaccel, SettingUp
      <3>3. wpc[t] = "stash" => stash_hwaccel = "none"
        BY <3>2 DEF Control, Token
      <3>4. wpc[t] = "async_unlock" => async_lock
        BY <3>1 DEF Control, Locks, ThreadAt, LocksAt
      <3> QED
        BY <3>1, <3>3, <3>4 DEF ThreadAt, LocksAt
    <2> QED
      BY <2>1, <2>2, <2>3 DEF Assertions
  <1> QED
    BY <1>1, Invariance, PTL

\* A packet is set up with the hwaccel chosen last, which one thread uses at a time:
\* hwaccel_mutex and stash_hwaccel (pthread_frame.c:648, :666); and async_lock keeps one
\* that is not async safe from the caller's time outside (:130).
THEOREM HwaccelIsAlone == Spec => []HwaccelAlone
  <1>1. Control => HwaccelAlone
    <2> SUFFICES ASSUME Control, NEW t \in Threads
                 PROVE  /\ wpc[t] \in {"ff_get_format", "ff_get_buffer", "get_buffer",
                                       "unlock_buffer", "setup"} => p[t].hwaccel = hwaccel_now
                        /\ UsesHwaccel(t) =>
                             /\ \A u \in Threads \ {t} : ~UsesHwaccel(u)
                             /\ p[t].hwaccel = "async_unsafe" => mpc # "user"
      BY DEF HwaccelAlone
    <2>1. /\ \A u \in Threads : ThreadAt(p[u], wpc[u]) /\ p[u] \in ThreadType
          /\ kind \in Kinds /\ wpc[t] \in PCs
      BY DEF Control, Types
    <2>2. \A u \in Threads : UsesHwaccel(u) => p[u].hwaccel_serializing
      BY <2>1 DEF UsesHwaccel, ThreadAt, LocksAt
    <2>3. \A u \in Threads : UsesHwaccel(u) => hwaccel_mutex = u
      BY <2>2 DEF Control, Locks
    <2>4. ASSUME UsesHwaccel(t), p[t].hwaccel = "async_unsafe"
          PROVE  mpc # "user"
      <3>1. p[t].async_serializing
        BY <2>1, <2>4 DEF UsesHwaccel, ThreadAt, LocksAt
      <3> QED
        BY <3>1 DEF Control, Locks, Outside
    <2>5. ASSUME wpc[t] \in {"ff_get_format", "ff_get_buffer", "get_buffer", "unlock_buffer",
                             "setup"}
          PROVE  p[t].hwaccel = hwaccel_now
      <3>1. CASE kind.update
        <4>1. HasHwaccel(t)
          BY <2>1, <2>5, <3>1 DEF ThreadAt, StateAt, HasHwaccel, SettingUp
        <4> QED
          BY <4>1 DEF Control, Token
      <3>2. CASE ~kind.update
        <4>1. kind.hw = "none"
          BY <2>1, <3>2, KindFacts
        <4> QED
          BY <2>1, <4>1 DEF Control, Token, ThreadAt, LocksAt
      <3> QED
        BY <3>1, <3>2
    <2> QED
      BY <2>3, <2>4, <2>5
  <1> QED
    BY <1>1, Invariance, PTL

-----------------------------------------------------------------------------
(* What the threads make of the packets.                                   *)

\* Only in Setup does a thread change its context or make a frame.
GoesOn(t) ==
  /\ UNCHANGED <<taken, made, returned>> /\ p'[t].ctx = p[t].ctx
  /\ BeforeSetup(t)' <=> BeforeSetup(t)
  /\ ~BeforeSetup(t) => Result(t)' = Result(t)
  /\ Decoding(t)' => Decoding(t) /\ p'[t].outcome = p[t].outcome
  /\ Decoding(t) /\ ~Decoding(t)' => (p'[t].got_frame <=> p'[t].frame # 0)
  /\ ~BeforeSetup(t) /\ ~Decoding(t) =>
       p'[t].got_frame = p[t].got_frame /\ p'[t].frame = p[t].frame
  /\ Incomplete(t)' => Incomplete(t)
  /\ progress \subseteq progress'
  /\ Incomplete(t) => Incomplete(t)' \/ p[t].avpkt \in progress'

LEMMA WorkerGoesOn ==
  ASSUME Control, NEW t \in Threads, WorkerStep(t), ~Die(t), ~Setup(t)
  PROVE  GoesOn(t)
  <1>1. /\ p \in [Threads -> ThreadType] /\ wpc \in [Threads -> PCs] /\ p[t] \in ThreadType
        /\ kind \in Kinds /\ ThreadAt(p[t], wpc[t])
        /\ p[t].state # "INPUT_READY"
    BY WorkerSteps DEF Control, Types, Steps
  <1> USE DEF GoesOn, BeforeSetup, Result, Decoding, Incomplete, FinishingSetup, Goto, history,
              frames, kept, ThreadAt, StateAt, BackAt, OutcomeAt
  <1>2. CASE Start(t)
    <2>1. /\ wpc[t] = "wait" /\ p[t].state # "INPUT_READY"
          /\ UNCHANGED <<taken, made, returned, progress>>
      BY <1>2 DEF Start
    <2>2. CASE wpc' = [wpc EXCEPT ![t] = "finish_setup"] /\ p' = [p EXCEPT ![t].back = "decode"]
      BY <1>1, <2>1, <2>2 DEF ThreadType
    <2>3. CASE wpc' = [wpc EXCEPT ![t] = "decode"] /\ p' = p
      BY <1>1, <2>1, <2>3
    <2> QED
      BY <1>2, <2>2, <2>3 DEF Start
  <1>3. CASE Decode(t)
    <2>1. /\ wpc[t] = "decode" /\ UNCHANGED <<taken, made, returned, progress>>
      BY <1>3 DEF Decode
    <2>2. /\ wpc'[t] \in {"ff_get_format", "ff_get_buffer", "setup"}
          /\ p'[t].ctx = p[t].ctx /\ p'[t].state = p[t].state
      BY <1>1, <1>3 DEF Decode, ThreadType
    <2> QED
      BY <1>1, <2>1, <2>2
  <1>4. CASE GetFormat(t) \/ GetBuffer(t)
    <2>1. /\ wpc[t] \in {"ff_get_format", "ff_get_buffer"}
          /\ UNCHANGED <<taken, made, returned, progress>>
      BY <1>4 DEF GetFormat, GetBuffer
    <2>2. /\ wpc'[t] \in {"ff_get_buffer", "get_format", "setup", "get_buffer"}
          /\ p'[t].ctx = p[t].ctx /\ p'[t].state # "INPUT_READY"
      <3>1. CASE GetFormat(t)
        BY <1>1, <3>1 DEF GetFormat, ThreadType
      <3>2. CASE GetBuffer(t)
        BY <1>1, <3>2 DEF GetBuffer, ThreadType
      <3> QED
        BY <1>4, <3>1, <3>2
    <2> QED
      BY <1>1, <2>1, <2>2
  <1>5. CASE AwaitReply(t) \/ FormatReply(t) \/ UnlockBuffer(t)
    BY <1>1, <1>5 DEF AwaitReply, FormatReply, UnlockBuffer
  <1>6. CASE BufferReply(t)
    <2>1. /\ wpc[t] = "get_buffer" /\ p[t].state # "INPUT_READY"
          /\ UNCHANGED <<taken, made, returned, progress>>
      BY <1>1, <1>6 DEF BufferReply
    <2>2. /\ wpc'[t] \in {"unlock_buffer", "finish_setup"} /\ p'[t].back = "unlock_buffer"
          /\ p'[t].ctx = p[t].ctx /\ p'[t].state = p[t].state
      BY <1>1, <1>6 DEF BufferReply, ThreadType
    <2> QED
      BY <1>1, <2>1, <2>2
  <1>7. CASE Await(t)
    BY <1>1, <1>7 DEF Await
  <1>8. CASE Report(t)
    BY <1>1, <1>8 DEF Report
  <1>9. CASE DecodeReturns(t)
    <2>1. /\ wpc[t] = "return" /\ UNCHANGED <<taken, made, returned, progress>>
      BY <1>9 DEF DecodeReturns
    <2>2. /\ wpc'[t] \in {"finish_setup", "decoded", "ready"}
          /\ p'[t].back \in {"decoded", "ready"}
          /\ p'[t].frame = p[t].out /\ p'[t].got_frame = (p[t].out # 0)
          /\ p'[t].ctx = p[t].ctx /\ p'[t].state = p[t].state
      BY <1>1, <1>9 DEF DecodeReturns, AfterDecode, ThreadType
    <2> QED
      BY <1>1, <2>1, <2>2
  <1>10. CASE Decoded(t) \/ AsyncUnlock(t) \/ Ready(t)
    <2>1. /\ wpc[t] \in {"decoded", "async_unlock", "ready"}
          /\ UNCHANGED <<taken, made, returned, progress>>
      BY <1>10 DEF Decoded, AsyncUnlock, Ready
    <2>2. /\ \/ wpc'[t] \in {"async_unlock", "ready"}
             \/ wpc'[t] = "wait" /\ p'[t].state = "INPUT_READY"
          /\ p'[t].frame = p[t].frame /\ p'[t].got_frame = p[t].got_frame
          /\ p'[t].ctx = p[t].ctx
      <3>1. CASE Decoded(t)
        <4>1. wpc'[t] \in {"async_unlock", "ready"}
          BY <1>1, <3>1 DEF Decoded
        <4>2. p' = [p EXCEPT ![t].hwaccel = "none", ![t].hwaccel_serializing = FALSE]
          BY <3>1 DEF Decoded
        <4>3. /\ p'[t].frame = p[t].frame /\ p'[t].ctx = p[t].ctx
              /\ p'[t].got_frame = p[t].got_frame
          BY <1>1, <4>2 DEF ThreadType
        <4> QED
          BY <4>1, <4>3
      <3>2. CASE AsyncUnlock(t)
        <4>1. wpc'[t] = "ready"
          BY <1>1, <3>2 DEF AsyncUnlock
        <4>2. p' = [p EXCEPT ![t].async_serializing = FALSE]
          BY <3>2 DEF AsyncUnlock
        <4>3. /\ p'[t].frame = p[t].frame /\ p'[t].ctx = p[t].ctx
              /\ p'[t].got_frame = p[t].got_frame
          BY <1>1, <4>2 DEF ThreadType
        <4> QED
          BY <4>1, <4>3
      <3>3. CASE Ready(t)
        BY <1>1, <3>3 DEF Ready, ThreadType
      <3> QED
        BY <1>10, <3>1, <3>2, <3>3
    <2> QED
      BY <1>1, <2>1, <2>2
  <1>11. CASE FinishSetup(t) \/ AsyncLock(t) \/ Stash(t)
    <2>1. /\ wpc[t] \in FinishingSetup /\ UNCHANGED <<taken, made, returned, progress>>
      BY <1>11 DEF FinishSetup, AsyncLock, Stash
    <2>2. /\ wpc'[t] \in FinishingSetup
          /\ p'[t].frame = p[t].frame /\ p'[t].got_frame = p[t].got_frame
          /\ p'[t].ctx = p[t].ctx /\ p'[t].state = p[t].state /\ p'[t].back = p[t].back
          /\ p'[t].out = p[t].out /\ p'[t].outcome = p[t].outcome
      <3>1. CASE FinishSetup(t)
        BY <1>1, <3>1 DEF FinishSetup, ThreadType
      <3>2. CASE AsyncLock(t)
        BY <1>1, <3>2 DEF AsyncLock, ThreadType
      <3>3. CASE Stash(t)
        BY <1>1, <3>3 DEF Stash, ThreadType
      <3> QED
        BY <1>11, <3>1, <3>2, <3>3
    <2> QED
      BY <1>1, <2>1, <2>2
  <1>12. CASE SetupFinished(t)
    <2>1. /\ wpc[t] = "setup_finished" /\ UNCHANGED <<taken, made, returned, progress>>
      BY <1>12 DEF SetupFinished
    <2>2. /\ wpc'[t] = p[t].back
          /\ p'[t].frame = p[t].frame /\ p'[t].got_frame = p[t].got_frame
          /\ p'[t].ctx = p[t].ctx /\ p'[t].state = "SETUP_FINISHED" /\ p'[t].back = p[t].back
          /\ p'[t].out = p[t].out /\ p'[t].outcome = p[t].outcome
      BY <1>1, <1>12 DEF SetupFinished, ThreadType
    <2> QED
      BY <1>1, <2>1, <2>2
  <1> QED
    BY <1>2, <1>3, <1>4, <1>5, <1>6, <1>7, <1>8, <1>9, <1>10, <1>11, <1>12 DEF WorkerStep

\* Setup, with the packet of the thread and whether it is a picture.
SetupOf(t, pkt, pic, swap) ==
  /\ pkt = p[t].avpkt /\ (pic <=> p[t].outcome = "pic") /\ pkt \in Numbers
  /\ pic => pkt # 0
  /\ swap <=> kind.reorder /\ (pic \/ pkt = 0)
  /\ BeforeSetup(t) /\ ~BeforeSetup(t)' /\ Decoding(t)'
  /\ p'[t].ctx.seen = (IF pkt = 0 THEN p[t].ctx.seen ELSE pkt)
  /\ p'[t].ctx.held = (IF swap THEN pkt ELSE p[t].ctx.held)
  /\ Result(t)' = (IF swap THEN p[t].ctx.held ELSE IF pic /\ ~kind.reorder THEN pkt ELSE 0)
  /\ Incomplete(t)' <=> pic
  /\ made' = made \cup (IF pic THEN {pkt} ELSE {})
  /\ UNCHANGED <<taken, returned, progress>>

LEMMA SetupFacts ==
  ASSUME Control, NEW t \in Threads, Setup(t)
  PROVE  \E pkt \in Numbers, pic, swap \in BOOLEAN : SetupOf(t, pkt, pic, swap)
  <1>1. /\ p \in [Threads -> ThreadType] /\ wpc \in [Threads -> PCs] /\ p[t] \in ThreadType
        /\ kind \in Kinds /\ ThreadAt(p[t], wpc[t])
        /\ p[t].state # "INPUT_READY" /\ p[t].avpkt \in Numbers
    BY WorkerSteps, FieldTypes DEF Control, Types, Steps, WorkerStep, Setup, Die
  <1>2. PICK pic \in BOOLEAN : pic = (p[t].outcome = "pic")
    OBVIOUS
  <1>3. PICK swap \in BOOLEAN : swap = (kind.reorder /\ (pic \/ p[t].avpkt = 0))
    OBVIOUS
  <1>4. /\ wpc[t] = "setup" /\ wpc'[t] \in {"finish_setup", "await"}
        /\ made' = made \cup (IF pic THEN {p[t].avpkt} ELSE {})
        /\ UNCHANGED <<taken, returned, progress>>
    BY ZenonT(30), <1>1, <1>2 DEF Setup, Goto, frames
  <1>5. \E await : p' = [p EXCEPT
            ![t].ctx = [seen |-> IF p[t].avpkt = 0 THEN p[t].ctx.seen ELSE p[t].avpkt,
                        held |-> IF kind.reorder /\ (p[t].outcome = "pic" \/ p[t].avpkt = 0)
                                 THEN p[t].avpkt ELSE p[t].ctx.held,
                        ref  |-> IF p[t].outcome = "pic" THEN p[t].avpkt ELSE p[t].ctx.ref],
            ![t].out = IF kind.reorder /\ (p[t].outcome = "pic" \/ p[t].avpkt = 0)
                       THEN p[t].ctx.held
                       ELSE IF p[t].outcome = "pic" /\ ~kind.reorder THEN p[t].avpkt ELSE 0,
            ![t].await = await, ![t].back = "await"]
    BY DEF Setup
  <1>6. /\ p'[t].ctx = [seen |-> IF p[t].avpkt = 0 THEN p[t].ctx.seen ELSE p[t].avpkt,
                        held |-> IF swap THEN p[t].avpkt ELSE p[t].ctx.held,
                        ref  |-> IF pic THEN p[t].avpkt ELSE p[t].ctx.ref]
        /\ p'[t].out = (IF swap THEN p[t].ctx.held
                        ELSE IF pic /\ ~kind.reorder THEN p[t].avpkt ELSE 0)
        /\ p'[t].back = "await" /\ p'[t].state = p[t].state /\ p'[t].outcome = p[t].outcome
    <2>1. PICK x \in ThreadType : x = p[t]
      BY <1>1
    <2> DEFINE now  == kind.reorder /\ (p[t].outcome = "pic" \/ p[t].avpkt = 0)
               c    == [seen |-> IF p[t].avpkt = 0 THEN p[t].ctx.seen ELSE p[t].avpkt,
                        held |-> IF now THEN p[t].avpkt ELSE p[t].ctx.held,
                        ref  |-> IF p[t].outcome = "pic" THEN p[t].avpkt ELSE p[t].ctx.ref]
               out  == IF now THEN p[t].ctx.held
                       ELSE IF p[t].outcome = "pic" /\ ~kind.reorder THEN p[t].avpkt ELSE 0
    <2>2. PICK await : p' = [p EXCEPT ![t].ctx = c, ![t].out = out, ![t].await = await,
                                      ![t].back = "await"]
      BY <1>5
    <2>3. c = [seen |-> IF p[t].avpkt = 0 THEN p[t].ctx.seen ELSE p[t].avpkt,
               held |-> IF swap THEN p[t].avpkt ELSE p[t].ctx.held,
               ref  |-> IF pic THEN p[t].avpkt ELSE p[t].ctx.ref]
      BY <1>2, <1>3
    <2>4. out = (IF swap THEN p[t].ctx.held
                 ELSE IF pic /\ ~kind.reorder THEN p[t].avpkt ELSE 0)
      BY <1>2, <1>3
    <2> HIDE DEF c, out
    <2>5. p'[t] = [x EXCEPT !.ctx = c, !.out = out, !.await = await, !.back = "await"]
      BY <1>1, <2>1, <2>2
    <2>6. /\ p'[t].ctx = c /\ p'[t].out = out /\ p'[t].back = "await" /\ p'[t].state = x.state
          /\ p'[t].outcome = x.outcome
      BY <2>5 DEF ThreadType
    <2> QED
      BY <2>1, <2>3, <2>4, <2>6
  <1>7. BeforeSetup(t)
    BY <1>1, <1>4 DEF BeforeSetup
  <1>8. ~BeforeSetup(t)' /\ Decoding(t)'
    BY <1>4, <1>6 DEF BeforeSetup, Decoding, FinishingSetup
  <1>9. Result(t)' = p'[t].out
    BY <1>8 DEF Result
  <1>10. Incomplete(t)' <=> pic
    BY <1>2, <1>4, <1>6, <1>8 DEF Incomplete
  <1>11. pic => p[t].avpkt # 0
    BY <1>1, <1>2 DEF ThreadAt, OutcomeAt
  <1>12. SetupOf(t, p[t].avpkt, pic, swap)
    <2>1. /\ p'[t].ctx.seen = (IF p[t].avpkt = 0 THEN p[t].ctx.seen ELSE p[t].avpkt)
          /\ p'[t].ctx.held = (IF swap THEN p[t].avpkt ELSE p[t].ctx.held)
      BY <1>6
    <2> QED
      BY <1>1, <1>2, <1>3, <1>4, <1>6, <1>7, <1>8, <1>9, <1>10, <1>11, <2>1 DEF SetupOf
  <1> QED
    BY <1>1, <1>12

LEMMA ServeFields ==
  ASSUME Control, ServeBuffer \/ ServeFormat, NEW u \in Threads
  PROVE  /\ p'[u].outcome = p[u].outcome /\ p'[u].back = p[u].back
         /\ p'[u].avpkt = p[u].avpkt /\ p'[u].ctx = p[u].ctx /\ p'[u].out = p[u].out
         /\ p'[u].frame = p[u].frame /\ p'[u].got_frame = p[u].got_frame
         /\ (p'[u].state = "INPUT_READY" <=> p[u].state = "INPUT_READY")
  <1>1. CASE u = next_decoding
    <2>1. PICK x \in ThreadType : x = p[next_decoding]
      BY ServeFacts
    <2>2. PICK b, hw : p'[u] = [x EXCEPT !.failed = b, !.hwaccel = hw, !.state = "SETTING_UP"]
      BY <1>1, <2>1, ServeFacts
    <2>3. /\ p'[u].outcome = x.outcome /\ p'[u].back = x.back
          /\ p'[u].avpkt = x.avpkt /\ p'[u].ctx = x.ctx /\ p'[u].out = x.out
          /\ p'[u].frame = x.frame /\ p'[u].got_frame = x.got_frame
          /\ p'[u].state = "SETTING_UP"
      BY <2>2 DEF ThreadType
    <2>4. x.state \in {"GET_BUFFER", "GET_FORMAT"}
      BY <2>1, ServeFacts
    <2> QED
      BY <1>1, <2>1, <2>3, <2>4
  <1>2. CASE u # next_decoding
    BY <1>2, ServeFacts
  <1> QED
    BY <1>1, <1>2

LEMMA CallerGoesOn ==
  ASSUME Control, Client \/ CallStep \/ SpuriousWakeup
  PROVE  /\ progress' = progress
         /\ ~Transfer => taken' = taken
         /\ ~Flushed => made' = made
         /\ ~Return => returned' = returned
         /\ \A u \in Threads :
              /\ p'[u].outcome = p[u].outcome
              /\ Decoding(u)' <=> Decoding(u)
              /\ ~Transfer => p'[u].avpkt = p[u].avpkt
              /\ ~Transfer => (BeforeSetup(u)' <=> BeforeSetup(u))
  <1>1. /\ wpc' = wpc /\ p \in [Threads -> ThreadType]
        /\ \A u \in Threads : ThreadAt(p[u], wpc[u])
    BY CallerThreads DEF Control, Types
  <1>2. /\ progress' = progress
        /\ ~Transfer => taken' = taken
        /\ ~Flushed => made' = made
        /\ ~Return => returned' = returned
    <2>1. CASE Client \/ SpuriousWakeup
      BY <2>1 DEF Client, SendPacket, Drain, Enter, Flush, Free, Park, SpuriousWakeup, frames, history
    <2>2. CASE Submit \/ AwaitSetup \/ UpdateContext \/ UpdateFails \/ Transfer
      BY <2>2 DEF Submit, AwaitSetup, UpdateContext, UpdateFails, Transfer, frames, history
    <2>3. CASE AwaitRequest \/ ServeBuffer \/ ServeFormat \/ Served \/ Submitted
      BY <2>3 DEF AwaitRequest, ServeBuffer, ServeFormat, Served, Submitted, frames, history
    <2>4. CASE AwaitOutput \/ Fetch \/ Return \/ AwaitIdle \/ Idle
      BY <2>4 DEF AwaitOutput, Fetch, Return, AwaitIdle, Idle, frames, history
    <2>5. CASE Flushed \/ Freeing \/ Kill \/ Join \/ Freed
      BY <2>5 DEF Flushed, Freeing, Kill, Join, Freed, frames, history
    <2> QED
      BY <2>1, <2>2, <2>3, <2>4, <2>5 DEF CallStep
  <1>3. CASE ~Transfer /\ ~ServeBuffer /\ ~ServeFormat
    <2>1. \A u \in Threads : Alike(p'[u], p[u])
      BY <1>3, CallerThreads
    <2> QED
      BY <1>1, <1>2, <2>1 DEF Alike, Decoding, BeforeSetup
  <1>4. CASE ServeBuffer \/ ServeFormat
    <2>1. \A u \in Threads :
            /\ p'[u].outcome = p[u].outcome /\ p'[u].back = p[u].back
            /\ p'[u].avpkt = p[u].avpkt
            /\ (p'[u].state = "INPUT_READY" <=> p[u].state = "INPUT_READY")
      BY <1>4, ServeFields
    <2> QED
      BY <1>1, <1>2, <2>1 DEF Decoding, BeforeSetup
  <1>5. CASE Transfer
    <2>1. \A u \in Threads : /\ p'[u].outcome = p[u].outcome /\ p'[u].back = p[u].back
      BY ZenonT(30), <1>5, TransferFacts DEF ThreadType
    <2> QED
      BY <1>1, <1>2, <1>5, <2>1 DEF Decoding
  <1> QED
    BY <1>3, <1>4, <1>5

\* The contexts go on, except for the one that is copied.
LEMMA CallerContexts ==
  ASSUME Control, Client \/ CallStep \/ SpuriousWakeup
  PROVE  /\ ~UpdateContext /\ ~Flushed /\ ~Freeing =>
              \A u \in Threads : p'[u].ctx = p[u].ctx
         /\ ~Fetch /\ ~Flushed /\ ~Idle /\ ~Freeing =>
              \A u \in Threads : p'[u].frame = p[u].frame /\ p'[u].got_frame = p[u].got_frame
         /\ ~Flushed /\ ~Freeing => \A u \in Threads : p'[u].out = p[u].out
  <1>1. p \in [Threads -> ThreadType]
    BY DEF Control, Types
  <1>2. CASE p' = p
    BY <1>2
  <1>3. CASE Client \/ SpuriousWakeup \/ Submit \/ AwaitSetup \/ UpdateFails \/ AwaitRequest
             \/ Served \/ Submitted
    BY <1>2, <1>3 DEF Client, SendPacket, Drain, Enter, Flush, Free, Park, SpuriousWakeup, Submit,
       AwaitSetup, UpdateFails, AwaitRequest, Served, Submitted
  <1>4. CASE AwaitOutput \/ Return \/ AwaitIdle \/ Join \/ Freed
    BY <1>2, <1>4 DEF AwaitOutput, Return, AwaitIdle, Join, Freed
  <1>5. CASE UpdateContext
    <2>1. prev_thread \in Threads /\ next_decoding \in Threads
      BY <1>5, NextIsIdle DEF UpdateContext, Control, OneSetup, Types
    <2>2. p' = CopyContext(next_decoding, prev_thread)
      BY <1>5 DEF UpdateContext
    <2>3. ~Flushed /\ ~Freeing
      BY <1>5 DEF UpdateContext, Flushed, Freeing
    <2> QED
      BY <1>1, <1>5, <2>1, <2>2, <2>3, ContextType
  <1>6. CASE Transfer
    BY ZenonT(30), <1>6, TransferFacts DEF ThreadType
  <1>7. CASE ServeBuffer \/ ServeFormat
    BY <1>7, ServeFields
  <1>8. CASE Fetch
    BY ZenonT(30), <1>8, FetchFacts DEF ThreadType
  <1>9. CASE Idle
    <2>1. i \in Threads /\ p' = [p EXCEPT ![i].got_frame = FALSE]
      BY <1>9, Sizes DEF Idle, Control, Types
    <2> QED
      BY <1>1, <1>9, <2>1 DEF ThreadType
  <1>10. CASE Kill
    <2>1. i \in Threads /\ p' = [p EXCEPT ![i].die = TRUE]
      BY <1>10, Sizes DEF Kill, Control, Types
    <2> QED
      BY <1>1, <2>1 DEF ThreadType
  <1> QED
    BY <1>3, <1>4, <1>5, <1>6, <1>7, <1>8, <1>9, <1>10 DEF CallStep

\* The thread of the newest packet changes when it is given the packet, and in a flush.
LEMMA CallerFront ==
  ASSUME Control, Client \/ CallStep \/ SpuriousWakeup
  PROVE  /\ ~Transfer /\ ~Flushed => Current' = Current /\ Front' = Front
         /\ Transfer => Front' = next_decoding /\ Current' = next_decoding
         /\ Flushed => Front' = 0 /\ Current' = Main
         /\ Front \in Threads
  <1>1. /\ Call /\ kind' = kind /\ next_decoding \in Nat /\ prev_thread \in Threads \cup {Main}
        /\ next_decoding <= ThreadCount
    BY CallerThreads DEF Control, Types
  <1>2. Submitting => next_decoding \in Threads /\ Submits(avpkt)
    BY <1>1, Sizes DEF Submitting, Call
  <1>3. Front \in Threads /\ Current \in Threads \cup {Main}
    BY <1>1, <1>2, Sizes DEF Front, Current
  <1>4. ASSUME UNCHANGED <<prev_thread, next_decoding>>, Submitting' <=> Submitting
        PROVE  Current' = Current /\ Front' = Front
    BY <1>4 DEF Front, Current
  <1>5. CASE SpuriousWakeup \/ AwaitSetup \/ AwaitRequest \/ AwaitOutput \/ AwaitIdle
             \/ ServeBuffer \/ ServeFormat
    <2>1. UNCHANGED <<mpc, avpkt, prev_thread, next_decoding>>
      BY <1>5 DEF SpuriousWakeup, AwaitSetup, AwaitRequest, AwaitOutput, AwaitIdle,
       ServeBuffer, ServeFormat, call, fctx
    <2> QED
      BY <1>1, <1>3, <1>4, <1>5, <2>1 DEF Submitting, Submits, Transfer, Flushed, AwaitSetup, AwaitRequest,
         AwaitOutput, AwaitIdle, ServeBuffer, ServeFormat, Serving
  <1>6. CASE SendPacket \/ Drain \/ Flush \/ Free \/ Submit \/ UpdateContext \/ UpdateFails
    <2>1. /\ mpc \in {"user", "submit", "update"} /\ UNCHANGED <<prev_thread, next_decoding>>
          /\ ~Submitting'
      BY <1>1, <1>6 DEF SendPacket, Drain, Enter, Flush, Free, Park, Submit, UpdateContext, UpdateFails,
         fctx, Submitting, Submits
    <2>2. ~Submitting /\ ~Transfer /\ ~Flushed
      BY <2>1 DEF Submitting, Transfer, Flushed
    <2> QED
      BY <1>3, <1>4, <2>1, <2>2
  <1>7. CASE Served
    <2>1. Submitting /\ Submitting' /\ UNCHANGED <<prev_thread, next_decoding>> /\ mpc = "serve"
      BY <1>1, <1>7 DEF Served, Serving, Submitting, Submits, Call, fctx, call
    <2> QED
      BY <1>3, <1>4, <2>1 DEF Transfer, Flushed
  <1>8. CASE Submitted
    <2>1. mpc = "submitted" /\ mpc' \in {"lock", "fetch"} /\ ~Submitting'
      BY <1>8 DEF Submitted, Submitting
    <2>2. CASE Submits(avpkt)
      BY <1>2, <1>3, <1>8, <2>1, <2>2, Sizes DEF Submitted, Front, Current, Submitting, Transfer, Flushed
    <2>3. CASE ~Submits(avpkt)
      BY <1>3, <1>8, <2>1, <2>3 DEF Submitted, Front, Current, Submitting, Transfer, Flushed
    <2> QED
      BY <2>2, <2>3
  <1>9. CASE Transfer
    <2>1. /\ mpc = "transfer" /\ mpc' \in {"submitted", "serve"} /\ Submits(avpkt)
          /\ UNCHANGED <<kind, avpkt, next_decoding>> /\ next_decoding \in Threads
      BY <1>1, <1>9, Sizes DEF Transfer, Call, call, fctx
    <2>2. Submitting'
      BY <2>1 DEF Submitting, Submits
    <2> QED
      BY <1>3, <1>9, <2>1, <2>2, Sizes DEF Front, Current, Flushed
  <1>10. CASE Fetch \/ Return
    <2>1. /\ mpc \in {"fetch", "lock"} /\ mpc' \in {"fetch", "lock", "user"} /\ prev_thread' = prev_thread
      BY <1>10 DEF Fetch, Return, fctx
    <2> QED
      BY <1>3, <2>1 DEF Front, Current, Submitting, Transfer, Flushed
  <1>11. CASE Flushed
    <2>1. mpc' = "user" /\ prev_thread' = Main
      BY <1>11 DEF Flushed
    <2> QED
      BY <1>3, <1>11, <2>1 DEF Front, Current, Submitting, Transfer, Flushed
  <1>12. CASE Idle \/ Freeing \/ Kill \/ Join \/ Freed
    <2>1. /\ mpc \in {"park"} \cup Closing /\ mpc' \in {"park"} \cup Closing
          /\ UNCHANGED <<prev_thread, next_decoding>>
      BY <1>12 DEF Idle, Freeing, Kill, Join, Freed, fctx, Closing
    <2>2. ~Submitting /\ ~Submitting' /\ ~Transfer /\ ~Flushed
      BY <1>12, <2>1 DEF Submitting, Closing, Transfer, Flushed, Idle, Freeing, Kill, Join, Freed
    <2> QED
      BY <1>3, <1>4, <2>1, <2>2
  <1> QED
    BY <1>5, <1>6, <1>7, <1>8, <1>9, <1>10, <1>11, <1>12 DEF Client, CallStep

LEMMA BeforeIsCurrent ==
  ASSUME Control, kind.update, NEW t \in Threads, BeforeSetup(t)
  PROVE  t = Current /\ t = Front /\ mpc # "transfer" /\ mpc \notin Closing
  <1>1. p[t].state \in SettingUp
    BY Sizes DEF Control, BeforeSetup, ThreadAt, StateAt, BackAt, SettingUp, FinishingSetup, Types
  <1>2. t = Current /\ mpc # "transfer" /\ mpc \notin Closing
    BY <1>1 DEF Control, OneSetup, Parked, SettingUp
  <1> QED
    BY <1>2, Sizes DEF Front

LEMMA WorkerSeen ==
  ASSUME Control, Seen, NEW t \in Threads, WorkerStep(t)
  PROVE  Seen'
  <1>1. CASE Die(t)
    <2>1. /\ UNCHANGED <<kind, mpc, avpkt, next_packet, next_decoding, taken, p>>
          /\ mpc \in Closing /\ \A u \in Threads : p[u].state = "INPUT_READY"
      BY <1>1 DEF Die, kept, call, client, fctx, history, Control, Parked
    <2>2. \A u \in Threads : ~BeforeSetup(u)'
      BY <2>1 DEF BeforeSetup
    <2> QED
      BY <2>1, <2>2 DEF Seen, Closing
  <1>2. CASE ~Die(t)
    <2>1. /\ UNCHANGED <<kind, mpc, avpkt, next_packet, next_decoding, prev_thread, taken>>
          /\ \A u \in Threads \ {t} : p'[u] = p[u] /\ wpc'[u] = wpc[u]
          /\ p'[t].avpkt = p[t].avpkt
      <3>1. taken' = taken
        BY <1>2, SetupFacts, WorkerGoesOn DEF SetupOf, GoesOn
      <3> QED
        BY <1>2, <3>1, WorkerSteps DEF Steps
    <2>2. Front' = Front /\ Front \in Threads
      BY <2>1, Sizes DEF Front, Current, Submitting, Submits, Control, Types, Call
    <2>3. \A u \in Threads \ {t} : BeforeSetup(u)' <=> BeforeSetup(u)
      BY <2>1 DEF BeforeSetup
    <2>4. taken \subseteq Packets /\ 0 \notin taken
      BY Sizes DEF Control, Types
    <2>5. CASE ~Setup(t)
      <3>1. GoesOn(t)
        BY <1>2, <2>5, WorkerGoesOn
      <3>2. \A u \in Threads : /\ p'[u].ctx = p[u].ctx /\ p'[u].avpkt = p[u].avpkt
                               /\ (BeforeSetup(u)' <=> BeforeSetup(u))
        BY <2>1, <2>3, <3>1 DEF GoesOn
      <3>3. mpc = "transfer" => next_decoding \in Threads
        BY NextIsIdle
      <3> QED
        BY <2>1, <2>2, <3>2, <3>3 DEF Seen, Newer
    <2>6. CASE Setup(t)
      <3>1. PICK pkt \in Numbers, pic, swap \in BOOLEAN : SetupOf(t, pkt, pic, swap)
        BY <2>6, SetupFacts
      <3>2. /\ BeforeSetup(t) /\ ~BeforeSetup(t)' /\ pkt = p[t].avpkt /\ pkt \in taken \cup {0}
            /\ p'[t].ctx.seen = (IF pkt = 0 THEN p[t].ctx.seen ELSE pkt)
        BY <3>1 DEF SetupOf, Seen
      <3>3. CASE ~kind.update
        BY <2>1, <2>3, <3>2, <3>3 DEF Seen
      <3>4. CASE kind.update
        <4>1. t = Front /\ mpc # "transfer" /\ mpc \notin Closing
          BY <3>2, <3>4, BeforeIsCurrent
        <4>2. \A u \in Threads : ~BeforeSetup(u)'
          BY <2>3, <3>2, <3>4, <4>1, BeforeIsCurrent
        <4>3. /\ pkt # 0 => \A n \in taken : n <= pkt
              /\ Newer(p[t].ctx.seen, taken \ {pkt})
          BY <3>2, <3>4, <4>1 DEF Seen
        <4>4. Newer(p'[t].ctx.seen, taken)
          <5>1. CASE pkt = 0
            BY <2>4, <3>2, <4>3, <5>1 DEF Newer
          <5>2. CASE pkt # 0
            BY <3>2, <4>3, <5>2 DEF Newer
          <5> QED
            BY <5>1, <5>2
        <4>5. Newer(p[Front].ctx.seen, taken)'
          BY <2>1, <2>2, <4>1, <4>4 DEF Newer
        <4> QED
          BY <2>1, <3>2, <4>1, <4>2, <4>5 DEF Seen
      <3> QED
        BY <3>3, <3>4
    <2> QED
      BY <2>5, <2>6
  <1> QED
    BY <1>1, <1>2

\* The packet of the call is the newest.
LEMMA CallerPackets ==
  ASSUME Control, Seen, Client \/ CallStep \/ SpuriousWakeup
  PROVE  /\ \A n \in taken' : n < next_packet'
         /\ mpc' \in {"submit", "update", "transfer"} /\ avpkt' # 0 =>
              avpkt' < next_packet' /\ \A n \in taken' : n < avpkt'
  <1>1. /\ \A n \in taken : n < next_packet
        /\ mpc \in {"submit", "update", "transfer"} /\ avpkt # 0 =>
             avpkt < next_packet /\ \A n \in taken : n < avpkt
        /\ next_packet \in Nat /\ taken \subseteq Nat
    BY Sizes DEF Seen, Control, Types
  <1>2. CASE SendPacket
    <2>1. taken' = taken /\ next_packet' = next_packet + 1 /\ avpkt' = next_packet
      BY <1>2 DEF SendPacket, Enter, history
    <2> QED
      BY <1>1, <2>1
  <1>3. CASE Drain
    BY <1>1, <1>3 DEF Drain, Enter, history
  <1>4. CASE Transfer
    <2>1. /\ mpc = "transfer" /\ taken' = taken \cup ({avpkt} \ {0})
          /\ UNCHANGED <<avpkt, next_packet>> /\ mpc' \in {"submitted", "serve"}
      BY <1>4 DEF Transfer, call, client
    <2> QED
      BY <1>1, <2>1
  <1>5. CASE /\ UNCHANGED <<taken, next_packet>>
             /\ \/ mpc' \notin {"submit", "update", "transfer"}
                \/ mpc \in {"submit", "update", "transfer"} /\ avpkt' = avpkt
    BY <1>1, <1>5
  <1>6. CASE Submit \/ UpdateContext \/ AwaitSetup \/ UpdateFails \/ Flush \/ Free
    BY <1>5, <1>6 DEF Submit, UpdateContext, AwaitSetup, UpdateFails, Flush, Free, Park, call, client, history
  <1>7. CASE AwaitRequest \/ ServeBuffer \/ ServeFormat \/ Served \/ Submitted
    BY <1>5, <1>7 DEF AwaitRequest, ServeBuffer, ServeFormat, Served, Serving, Submitted, call, client, history
  <1>8. CASE SpuriousWakeup \/ AwaitOutput \/ Fetch \/ Return \/ AwaitIdle \/ Idle
    BY <1>5, <1>8 DEF SpuriousWakeup, AwaitOutput, Fetch, Return, AwaitIdle, Idle, call, client, history
  <1>9. CASE Flushed \/ Freeing \/ Kill \/ Join \/ Freed
    BY <1>5, <1>9 DEF Flushed, Freeing, Kill, Join, Freed, client, history
  <1> QED
    BY <1>2, <1>3, <1>4, <1>6, <1>7, <1>8, <1>9 DEF Client, CallStep

LEMMA CallerSeen ==
  ASSUME Control, Seen, Client \/ CallStep \/ SpuriousWakeup
  PROVE  Seen'
  <1>1. /\ kind' = kind /\ Front \in Threads /\ taken \subseteq Packets /\ 0 \notin taken
        /\ \A t \in Threads : BeforeSetup(t) => p[t].avpkt \in taken \cup {0}
    BY CallerThreads, CallerFront, Sizes DEF Control, Types, Seen
  <1>2. CASE Transfer
    <2>1. /\ Front' = next_decoding /\ next_decoding \in Threads /\ next_decoding' = next_decoding
          /\ p'[next_decoding].avpkt = avpkt /\ p'[next_decoding].ctx = p[next_decoding].ctx
          /\ \A u \in Threads \ {next_decoding} : p'[u] = p[u]
          /\ wpc' = wpc /\ wpc[next_decoding] = "wait" /\ p'[next_decoding].state = "SETTING_UP"
          /\ mpc = "transfer" /\ mpc' \in {"submitted", "serve"}
      BY <1>2, CallerFront, TransferFacts DEF ThreadType
    <2>2. taken' = taken \cup ({avpkt} \ {0})
      BY <1>2 DEF Transfer
    <2>3. BeforeSetup(next_decoding)'
      BY <2>1 DEF BeforeSetup
    <2>4. \A u \in Threads \ {next_decoding} : BeforeSetup(u)' <=> BeforeSetup(u)
      BY <2>1 DEF BeforeSetup
    <2>5. \A t \in Threads : BeforeSetup(t)' => p'[t].avpkt \in taken' \cup {0}
      BY <1>1, <2>1, <2>2, <2>4
    <2>6. ASSUME kind.update
          PROVE  /\ avpkt # 0 => \A n \in taken' : n <= avpkt
                 /\ Newer(p[next_decoding].ctx.seen, taken' \ {avpkt})
                 /\ \A u \in Threads \ {next_decoding} : ~BeforeSetup(u)'
      <3>1. \A u \in Threads : ~BeforeSetup(u)
        BY <2>1, <2>6, BeforeIsCurrent
      <3>2. Newer(p[next_decoding].ctx.seen, taken)
        BY <1>1, <2>1, <2>6, <3>1 DEF Seen, Closing
      <3>3. avpkt # 0 => \A n \in taken : n < avpkt
        BY <2>1 DEF Seen
      <3>4. avpkt \in Nat /\ taken \subseteq Nat
        BY <1>1, Sizes DEF Control, Types
      <3>5. avpkt \notin taken
        BY <1>1, <3>3, <3>4
      <3>6. taken' \ {avpkt} = taken
        BY <1>1, <2>2, <3>5
      <3> QED
        BY <2>2, <2>4, <3>1, <3>2, <3>3, <3>4, <3>6
    <2> QED
      BY <1>1, <2>1, <2>3, <2>5, <2>6, CallerPackets DEF Seen, Newer
  <1>3. CASE ~Transfer
    <2>1. /\ taken' = taken
          /\ \A u \in Threads : /\ p'[u].avpkt = p[u].avpkt
                                /\ (BeforeSetup(u)' <=> BeforeSetup(u))
      BY <1>3, CallerGoesOn
    <2>2. CASE mpc' \in Closing
      BY <1>1, <2>1, <2>2, CallerPackets DEF Seen
    <2>3. CASE Flushed
      <3>1. Front' = 0 /\ mpc = "park" /\ i = ThreadCount /\ mpc' = "user"
        BY <2>3, CallerFront DEF Flushed
      <3>2. \A u \in Threads : ~BeforeSetup(u)
        <4>1. \A u \in Threads : u < ThreadCount
          BY Sizes
        <4> QED
          BY <3>1, <4>1 DEF Control, Parked, BeforeSetup
      <3>3. CASE kind.update
        <4>1. Newer(p[Front].ctx.seen, taken)
          BY <1>1, <3>1, <3>2, <3>3 DEF Seen, Closing
        <4>2. ~Submitting
          BY <3>1 DEF Submitting
        <4>3. p'[0].ctx.seen = p[Front].ctx.seen
          <5>1. p'[0].ctx.seen = Newest[0].ctx.seen
            BY <2>3, FlushedFacts, Sizes
          <5>2. Newest[0].ctx = IF prev_thread # Main THEN p[prev_thread].ctx ELSE p[0].ctx
            BY <3>3, NewestType DEF Control
          <5> QED
            BY <4>2, <5>1, <5>2 DEF Front, Current
        <4>4. Newer(p[Front].ctx.seen, taken)'
          BY <2>1, <3>1, <4>1, <4>3 DEF Newer
        <4> QED
          BY <1>1, <2>1, <3>1, <3>2, <4>4, CallerPackets DEF Seen
      <3>4. CASE ~kind.update
        BY <1>1, <2>1, <3>4, CallerPackets DEF Seen
      <3> QED
        BY <3>3, <3>4
    <2>4. CASE UpdateContext
      <3>1. /\ mpc = "update" /\ mpc' = "transfer" /\ p' = CopyContext(next_decoding, prev_thread)
            /\ next_decoding' = next_decoding /\ Front' = Front
            /\ prev_thread # Main /\ prev_thread \in Threads /\ Front = prev_thread
            /\ ~Flushed
        BY <2>4, CallerFront DEF UpdateContext, fctx, Control, OneSetup, Types, Front, Current, Submitting, Flushed
      <3>2. next_decoding \in Threads /\ Clean(next_decoding)
        BY <3>1, NextIsIdle
      <3>3. CASE kind.update
        <4>1. /\ p'[next_decoding].ctx = p[prev_thread].ctx
              /\ \A u \in Threads \ {next_decoding} : p'[u].ctx = p[u].ctx
          BY <3>1, <3>2, <3>3, ContextType DEF Control, Types
        <4>2. ~BeforeSetup(next_decoding)
          BY <3>2 DEF Clean, BeforeSetup
        <4>3. p'[Front].ctx = p[Front].ctx /\ p'[next_decoding].ctx = p'[Front].ctx
          BY <3>1, <4>1
        <4>4. ~BeforeSetup(Front)' => Newer(p[Front].ctx.seen, taken)'
          BY <1>1, <2>1, <3>1, <3>3, <4>3 DEF Seen, Closing, Newer
        <4>5. \A t \in Threads : BeforeSetup(t)' =>
                /\ p[t].avpkt # 0 => \A n \in taken : n <= p[t].avpkt
                /\ Newer(p'[t].ctx.seen, taken \ {p[t].avpkt})
          BY <2>1, <3>1, <3>3, <4>1, <4>2 DEF Seen, Closing
        <4> QED
          BY <1>1, <2>1, <3>1, <4>3, <4>4, <4>5, CallerPackets DEF Seen, Newer
      <3>4. CASE ~kind.update
        BY <1>1, <2>1, <3>4, CallerPackets DEF Seen
      <3> QED
        BY <3>3, <3>4
    <2>5. CASE ~Flushed /\ ~UpdateContext /\ mpc' \notin Closing
      <3>1. ~Freeing
        BY <2>5 DEF Freeing, Closing
      <3>2. Front' = Front /\ \A u \in Threads : p'[u].ctx = p[u].ctx
        BY <1>3, <2>5, <3>1, CallerFront, CallerContexts
      <3>3. mpc \notin Closing
        BY <2>5 DEF Client, SendPacket, Drain, Flush, Free, CallStep, Submit, AwaitSetup,
           UpdateContext, UpdateFails, Transfer, AwaitRequest, ServeBuffer, ServeFormat, Served, Serving,
           Submitted, AwaitOutput, Fetch, Return, AwaitIdle, Idle, Flushed, Freeing, Kill, Join,
           Freed, SpuriousWakeup, Closing
      <3>4. kind.update /\ mpc' = "transfer" =>
              next_decoding' \in Threads /\ p[next_decoding'].ctx = p[Front].ctx
        <4> SUFFICES ASSUME kind.update, mpc' = "transfer"
                     PROVE  next_decoding' \in Threads /\ p[next_decoding'].ctx = p[Front].ctx
          OBVIOUS
        <4>1. UNCHANGED next_decoding /\ (Submit \/ SpuriousWakeup)
          BY <2>5 DEF Client, SendPacket, Drain, Enter, Flush, Free, Park, CallStep, Submit, AwaitSetup,
             UpdateContext, UpdateFails, Transfer, AwaitRequest, ServeBuffer, ServeFormat, Served,
             Serving, Submitted, AwaitOutput, Fetch, Return, AwaitIdle, Idle, Flushed, Freeing, Kill,
             Join, Freed, SpuriousWakeup, fctx
        <4>2. mpc \in {"submit", "update", "transfer"}
          BY <4>1 DEF Submit, SpuriousWakeup
        <4>3. next_decoding \in Threads
          BY <4>2, NextIsIdle
        <4>4. CASE Submit
          <5>1. prev_thread = Main /\ ~Submitting
            BY <4>4 DEF Submit, Submitting
          <5>2. next_decoding = 0
            BY <5>1 DEF Control, Call
          <5> QED
            BY <4>1, <4>3, <5>1, <5>2 DEF Front, Current
        <4>5. CASE SpuriousWakeup
          <5>1. mpc = "transfer"
            BY <4>5 DEF SpuriousWakeup
          <5> QED
            BY <4>1, <4>3, <5>1 DEF Seen, Closing
        <4> QED
          BY <4>1, <4>4, <4>5
      <3> QED
        BY <1>1, <2>1, <2>5, <3>2, <3>3, <3>4, CallerPackets DEF Seen, Newer
    <2> QED
      BY <2>2, <2>3, <2>4, <2>5
  <1> QED
    BY <1>2, <1>3

LEMMA InitSeen ==
  ASSUME Init
  PROVE  Seen
  <1>1. Control /\ \A u \in Threads : p[u].state = "INPUT_READY" /\ p[u].ctx = NewContext
    BY InitControl DEF Init
  <1>2. \A u \in Threads : ~BeforeSetup(u)
    BY <1>1 DEF BeforeSetup
  <1>3. Front \in Threads
    BY Sizes DEF Init, Front, Current, Submitting
  <1> QED
    BY <1>1, <1>2, <1>3 DEF Init, Seen, Newer, NewContext

LEMMA NextSeen ==
  ASSUME Control, Seen, [Next]_vars
  PROVE  Seen'
  <1>1. CASE Ended \/ UNCHANGED vars
    <2>1. UNCHANGED <<kind, mpc, avpkt, next_packet, prev_thread, next_decoding, p, wpc, taken>>
      BY <1>1 DEF Ended, vars, call, client, fctx, history
    <2> QED
      BY <2>1 DEF Seen, BeforeSetup, Front, Current, Submitting, Submits, Newer
  <1> QED
    BY <1>1, WorkerSeen, CallerSeen DEF Next

\* A thread sets up with the context of the packet before (update_context_from_thread,
\* pthread_frame.c:440), also after a flush (:984) and after a packet that was dropped.
THEOREM ContextIsHandedOver == Spec => []ContextHandedOver
  <1>1. Init => Control /\ Seen
    BY InitControl, InitSeen
  <1>2. Control /\ Seen /\ [Next]_vars => (Control /\ Seen)'
    BY NextControl, NextSeen
  <1>3. Control /\ Seen => ContextHandedOver
    <2> SUFFICES ASSUME Control, Seen, NEW t \in Threads, kind.update, wpc[t] = "setup"
                 PROVE  LET before == taken \ {p[t].avpkt} IN
                          /\ p[t].ctx.seen \in before \cup {0}
                          /\ \A n \in before : n <= p[t].ctx.seen
      BY DEF ContextHandedOver
    <2>1. BeforeSetup(t)
      BY DEF Control, ThreadAt, StateAt, BeforeSetup
    <2>2. mpc \notin Closing
      BY <2>1, BeforeIsCurrent
    <2> QED
      BY <2>1, <2>2 DEF Seen, Newer
  <1> QED
    BY <1>1, <1>2, <1>3, PTL DEF Spec

-----------------------------------------------------------------------------
(* The frames: the steps that make none, and give none to another.         *)

LEMMA MarkFacts ==
  ASSUME Control, NEW t \in Threads
  PROVE  /\ Mark(t) \in Numbers /\ Result(t) \in Numbers /\ p[t].avpkt \in Numbers
         /\ BeforeSetup(t) => ~Decoding(t) /\ Mark(t) = p[t].avpkt
         /\ ~BeforeSetup(t) => Mark(t) = Result(t)
         /\ Clean(t) => Mark(t) = 0 /\ Result(t) = 0 /\ ~BeforeSetup(t) /\ ~Decoding(t)
         /\ Incomplete(t) => ~BeforeSetup(t) /\ ~Clean(t) /\ Decoding(t)
  <1>1. p[t] \in ThreadType /\ ThreadAt(p[t], wpc[t])
    BY DEF Control, Types
  <1>2. Decoding(t) => p[t].state # "INPUT_READY"
    BY <1>1 DEF Decoding, ThreadAt, StateAt, FinishingSetup
  <1>3. BeforeSetup(t) => ~Decoding(t)
    BY DEF BeforeSetup, Decoding, FinishingSetup
  <1>4. Mark(t) \in Numbers /\ Result(t) \in Numbers /\ p[t].avpkt \in Numbers
    BY <1>1, FieldTypes DEF Mark, Result
  <1>5. Incomplete(t) => Decoding(t)
    BY DEF Incomplete
  <1>6. Clean(t) => p[t].state = "INPUT_READY" /\ p[t].frame = 0
    BY DEF Clean
  <1>7. BeforeSetup(t) => p[t].state # "INPUT_READY"
    BY DEF BeforeSetup
  <1> QED
    BY <1>2, <1>3, <1>4, <1>5, <1>6, <1>7 DEF Mark, Result

\* When it sets up, the thread of the newest packet is last in turn.
LEMMA LastInTurn ==
  ASSUME Control, Live, NEW t \in Threads, t = Current, NEW u \in Threads, ~Clean(u)
  PROVE  Turn(u, next_finished) <= Turn(t, next_finished)
  <1>1. /\ Call /\ InTurn /\ next_finished \in Threads /\ next_decoding \in Nat
        /\ next_decoding <= ThreadCount
        /\ mpc \in Calling \cup {"user", "lock", "fetch"}
    BY DEF Control, Types, Live, Closing, Calling
  <1>2. /\ Turn(t, next_finished) \in Nat /\ Turn(u, next_finished) \in Nat
    BY <1>1, TurnFacts
  <1>3. CASE Submitting
    <2>1. t = next_decoding /\ mpc \in Calling
      BY <1>3 DEF Current, Submitting, Calling
    <2> QED
      BY <1>1, <1>2, <2>1 DEF InTurn
  <1>4. CASE mpc = "fetch" /\ Submits(avpkt)
    <2>1. t = prev_thread
      BY <1>4 DEF Current, Submitting
    <2> QED
      BY <1>1, <1>4, <2>1 DEF InTurn
  <1>5. CASE ~Submitting /\ ~(mpc = "fetch" /\ Submits(avpkt))
    <2>1. t = prev_thread /\ prev_thread # Main
      BY <1>5, Sizes DEF Current
    <2>2. Turn(u, next_finished) < Turn(next_decoding, next_finished)
      BY <1>1, <1>5 DEF InTurn
    <2>3. next_decoding # ThreadCount
      BY <1>1, <1>5 DEF Call
    <2>4. next_decoding = After(t) /\ next_decoding \in Threads
      BY <1>1, <2>1, <2>3, Sizes DEF Call, After
    <2>5. CASE next_decoding = next_finished
      <3>1. Turn(next_decoding, next_finished) = 0
        BY <1>1, <2>5, TurnFacts
      <3> QED
        BY <1>2, <2>2, <3>1
    <2>6. CASE next_decoding # next_finished
      <3>1. Turn(next_decoding, next_finished) = Turn(t, next_finished) + 1
        BY <1>1, <2>4, <2>6, TurnAfter
      <3> QED
        BY <1>2, <2>2, <3>1
    <2> QED
      BY <2>5, <2>6
  <1> QED
    BY <1>3, <1>4, <1>5

\* A step that leaves every frame where it is.
Quiet ==
  /\ UNCHANGED <<kind, made, returned, taken>> /\ progress \subseteq progress'
  /\ Held' = Held
  /\ \A t \in Threads :
       /\ BeforeSetup(t)' <=> BeforeSetup(t)
       /\ ~BeforeSetup(t) => Result(t)' = Result(t)
       /\ p'[t].avpkt = p[t].avpkt
       /\ ~kind.reorder => p'[t].ctx.held = 0
       /\ Incomplete(t)' => Incomplete(t)
       /\ Incomplete(t) => Incomplete(t)' \/ p[t].avpkt \in progress'

LEMMA CurrentThread ==
  ASSUME Control, Submitting \/ (mpc = "fetch" /\ Submits(avpkt))
  PROVE  Current \in Threads
  <1>1. /\ Call /\ next_decoding \in Nat /\ next_decoding <= ThreadCount
        /\ prev_thread \in Threads \cup {Main}
    BY DEF Control, Types
  <1>2. CASE Submitting
    <2>1. next_decoding # ThreadCount
      BY <1>1, <1>2 DEF Call, Submitting
    <2> QED
      BY <1>1, <1>2, <2>1, Sizes DEF Current
  <1>3. CASE mpc = "fetch" /\ Submits(avpkt)
    <2>1. prev_thread # Main /\ ~Submitting
      BY <1>1, <1>3 DEF Call, Submitting
    <2> QED
      BY <1>1, <2>1 DEF Current
  <1> QED
    BY <1>2, <1>3

LEMMA QuietMade ==
  ASSUME Control, Made, Quiet, got' = got, mpc' # "lock" => got' = 0 /\ ~err'
  PROVE  Made'
  <1>1. /\ returned' \subseteq made' \cap progress' /\ made' \subseteq taken'
        /\ got' \in made' \cup {0} /\ Held' \in made' \cup {0}
    BY DEF Made, Quiet
  <1>2. ASSUME NEW t \in Threads
        PROVE  /\ ~BeforeSetup(t)' => Result(t)' \in made' \cup {0}
               /\ ~kind.reorder => p'[t].ctx.held = 0
               /\ Incomplete(t)' => p'[t].avpkt \in made'
    BY DEF Made, Quiet
  <1> QED
    BY <1>1, <1>2 DEF Made, Quiet

LEMMA QuietFrames ==
  ASSUME Control, Line, Ordered, Complete, \A f \in made : Known(f),
         Quiet, UNCHANGED <<got, next_finished>>,
         \A t \in Threads : ~BeforeSetup(t)' /\ ~Decoding(t)' =>
           (p'[t].got_frame <=> p'[t].frame # 0)
  PROVE  Line' /\ Ordered' /\ Complete' /\ \A f \in made' : Known(f)'
  <1>1. /\ UNCHANGED <<kind, made, returned, taken, got, next_finished>>
        /\ progress \subseteq progress' /\ Held' = Held
        /\ \A t \in Threads :
             /\ BeforeSetup(t)' <=> BeforeSetup(t)
             /\ ~BeforeSetup(t) => Result(t)' = Result(t)
             /\ p'[t].avpkt = p[t].avpkt
             /\ Incomplete(t)' => Incomplete(t)
             /\ Incomplete(t) => Incomplete(t)' \/ p[t].avpkt \in progress'
    BY DEF Quiet
  <1>2. \A t \in Threads : Mark(t)' = Mark(t)
    BY <1>1 DEF Mark
  <1>3. \A x, f : Turn(x, f)' = Turn(x, f)
    BY DEF Turn
  <1>5. Line'
    BY <1>1 DEF Line
  <1>6. Ordered'
    BY <1>1, <1>2 DEF Ordered, Turn
  <1>7. Complete'
    <2>1. got' \in progress' \cup {0}
      BY <1>1 DEF Complete
    <2>2. \A f \in made' : f \in progress' \/ \E t \in Threads : Incomplete(t)' /\ p'[t].avpkt = f
      <3> SUFFICES ASSUME NEW f \in made, f \notin progress'
                   PROVE  \E t \in Threads : Incomplete(t)' /\ p'[t].avpkt = f
        BY <1>1
      <3>1. PICK t \in Threads : Incomplete(t) /\ p[t].avpkt = f
        BY <1>1 DEF Complete
      <3> QED
        BY <1>1, <3>1
    <2>3. \A t, u \in Threads :
            Incomplete(t)' /\ ~BeforeSetup(u)' /\ Result(u)' = p'[t].avpkt
              => Turn(t, next_finished) <= Turn(u, next_finished)
      BY <1>1 DEF Complete
    <2> QED
      BY <1>1, <2>1, <2>2, <2>3 DEF Complete, Turn
  <1>8. \A f \in made' : Known(f)'
    <2> SUFFICES ASSUME NEW f \in made
                 PROVE  Known(f)'
      BY <1>1
    <2>1. CASE f \in returned \cup {got, Held}
      BY <1>1, <2>1 DEF Known
    <2>2. CASE \E t \in Threads : ~BeforeSetup(t) /\ Result(t) = f
      <3>1. PICK t \in Threads : ~BeforeSetup(t) /\ Result(t) = f
        BY <2>2
      <3>2. ~BeforeSetup(t)' /\ Result(t)' = f
        BY <1>1, <3>1
      <3> QED
        BY <3>2 DEF Known
    <2> QED
      BY <2>1, <2>2 DEF Known
  <1> QED
    BY <1>5, <1>6, <1>7, <1>8

\* A worker that does not set up.
LEMMA WorkerQuiet ==
  ASSUME Control, Seen, Frames, NEW t \in Threads, WorkerStep(t), ~Die(t), ~Setup(t)
  PROVE  Frames'
  <1>1. /\ Steps(t) /\ GoesOn(t)
    BY WorkerSteps, WorkerGoesOn
  <1>2. /\ UNCHANGED <<kind, mpc, avpkt, got, err, draining, draining_done, prev_thread,
                       next_decoding, next_finished, made, returned, taken>>
        /\ progress \subseteq progress'
        /\ \A u \in Threads \ {t} : p'[u] = p[u] /\ wpc'[u] = wpc[u]
        /\ p'[t].avpkt = p[t].avpkt /\ p'[t].ctx = p[t].ctx
    BY <1>1 DEF Steps, GoesOn
  <1>3. /\ Front' = Front /\ Front \in Threads /\ Current' = Current /\ (Submitting' <=> Submitting)
        /\ (Submits(avpkt)' <=> Submits(avpkt)) /\ Current \in Threads \cup {Main}
    BY <1>2, Sizes DEF Front, Current, Submitting, Submits, Control, Types, Call
  <1>4. \A u \in Threads \ {t} :
          /\ BeforeSetup(u)' <=> BeforeSetup(u)
          /\ Decoding(u)' <=> Decoding(u)
          /\ Incomplete(u)' <=> Incomplete(u)
          /\ Result(u)' = Result(u)
    BY <1>2 DEF BeforeSetup, Decoding, Incomplete, Result
  <1>5. CASE mpc \in Closing
    BY <1>2, <1>5 DEF Frames, Live
  <1>6. CASE mpc \notin Closing
    <2>1. Made
      BY <1>6 DEF Frames
    <2>2. Held' = Held /\ \A u \in Threads : p'[u].ctx = p[u].ctx
      BY <1>2, <1>3 DEF Held
    <2>3. Quiet
      BY <1>1, <1>2, <1>4, <2>1, <2>2 DEF GoesOn, Quiet, Made
    <2>4. Made'
      BY <1>2, <2>1, <2>3, QuietMade DEF Made
    <2>5. CASE mpc = "park"
      BY <1>2, <2>4, <2>5 DEF Frames, Live
    <2>6. CASE mpc # "park"
      <3>1. Line /\ Ordered /\ Kept /\ Complete
        BY <1>6, <2>6 DEF Frames, Live
      <3>2. \A u \in Threads : ~BeforeSetup(u)' /\ ~Decoding(u)' =>
              (p'[u].got_frame <=> p'[u].frame # 0)
        <4>1. ASSUME NEW u \in Threads \ {t}, ~BeforeSetup(u)', ~Decoding(u)'
              PROVE  p'[u].got_frame <=> p'[u].frame # 0
          BY <1>2, <1>4, <3>1, <4>1 DEF Line
        <4>2. ASSUME ~BeforeSetup(t)', ~Decoding(t)'
              PROVE  p'[t].got_frame <=> p'[t].frame # 0
          BY <1>1, <3>1, <4>2 DEF GoesOn, Line
        <4> QED
          BY <4>1, <4>2
      <3>3. Line' /\ Ordered' /\ Complete' /\ \A f \in made' : Known(f)'
        BY <1>2, <2>3, <3>1, <3>2, QuietFrames DEF Kept
      <3>4. ~Clean(t) /\ (AllDone => Clean(t))
        BY <1>1 DEF Clean, Steps, AllDone
      <3>5. Kept'
        <4>1. Current' # Main /\ ~BeforeSetup(Current)' /\ p'[Current'].avpkt = 0 => Held' = 0
          BY <1>1, <1>2, <1>3, <1>4, <2>2, <3>1 DEF Kept, GoesOn
        <4>2. Submitting' \/ (mpc' = "fetch" /\ Submits(avpkt)') => p'[Current'].avpkt = avpkt'
          <5>1. Submitting \/ (mpc = "fetch" /\ Submits(avpkt)) => Current \in Threads
            BY CurrentThread
          <5> QED
            BY <1>2, <1>3, <3>1, <5>1 DEF Kept
        <4>3. /\ draining_done' => draining' /\ mpc' = "user" /\ AllDone'
              /\ mpc' = "lock" /\ draining' /\ got' = 0 /\ ~err' => AllDone'
          BY <1>2, <3>1, <3>4 DEF Kept
        <4> QED
          BY <3>3, <4>1, <4>2, <4>3 DEF Kept
      <3> QED
        BY <2>4, <3>3, <3>5 DEF Frames
    <2> QED
      BY <2>5, <2>6
  <1> QED
    BY <1>5, <1>6

\* A worker that sets up: the picture that was held back takes the place of its own.
LEMMA SetupMade ==
  ASSUME Control, Seen, Made, NEW t \in Threads, NEW pkt \in Numbers,
         NEW pic \in BOOLEAN, NEW swap \in BOOLEAN,
         SetupOf(t, pkt, pic, swap), Steps(t), mpc \notin Closing
  PROVE  /\ Made' /\ Current' = Current /\ Front' = Front /\ Front \in Threads
         /\ \A u \in Threads \ {t} :
              /\ p'[u] = p[u]
              /\ BeforeSetup(u)' <=> BeforeSetup(u)
              /\ Decoding(u)' <=> Decoding(u)
              /\ Incomplete(u)' <=> Incomplete(u)
              /\ Result(u)' = Result(u) /\ Mark(u)' = Mark(u)
         /\ p'[t].avpkt = pkt /\ p[t].ctx.held \in Numbers
         /\ kind.update => t = Front /\ t = Current
         /\ kind.reorder => kind.update
         /\ Mark(t) = pkt /\ Mark(t)' = Result(t)' /\ pkt \in taken \cup {0}
         /\ Held' = (IF kind.reorder /\ swap THEN pkt ELSE Held)
         /\ ~kind.reorder => Held = 0
         /\ Result(t)' = (IF swap THEN Held ELSE IF pic /\ ~kind.reorder THEN pkt ELSE 0)
  <1>1. /\ UNCHANGED <<kind, mpc, avpkt, got, err, prev_thread, next_decoding, next_finished>>
        /\ \A u \in Threads \ {t} : p'[u] = p[u] /\ wpc'[u] = wpc[u]
        /\ p'[t].avpkt = pkt /\ p' \in [Threads -> ThreadType]
    BY DEF Steps, SetupOf
  <1>2. /\ BeforeSetup(t) /\ ~BeforeSetup(t)' /\ Decoding(t)' /\ pkt = p[t].avpkt
        /\ (swap <=> kind.reorder /\ (pic \/ pkt = 0))
        /\ p'[t].ctx.held = (IF swap THEN pkt ELSE p[t].ctx.held)
        /\ Result(t)' = (IF swap THEN p[t].ctx.held
                         ELSE IF pic /\ ~kind.reorder THEN pkt ELSE 0)
        /\ (Incomplete(t)' <=> pic) /\ (pic => pkt # 0)
        /\ made' = made \cup (IF pic THEN {pkt} ELSE {})
        /\ UNCHANGED <<taken, returned, progress>>
    BY DEF SetupOf
  <1>3. /\ Front' = Front /\ Front \in Threads /\ Current' = Current
    BY <1>1, Sizes DEF Front, Current, Submitting, Submits, Control, Types, Call
  <1>4. \A u \in Threads \ {t} :
              /\ p'[u] = p[u]
              /\ (BeforeSetup(u)' <=> BeforeSetup(u))
              /\ (Decoding(u)' <=> Decoding(u))
              /\ (Incomplete(u)' <=> Incomplete(u))
              /\ Result(u)' = Result(u) /\ Mark(u)' = Mark(u)
    BY <1>1 DEF BeforeSetup, Decoding, Incomplete, Result, Mark
  <1>5. kind.update => t = Front /\ t = Current
    BY <1>2, BeforeIsCurrent
  <1>6. kind.reorder => kind.update
    BY KindFacts DEF Control, Types
  <1>7. pkt \in taken \cup {0} /\ 0 \notin taken
    BY <1>2, Sizes DEF Seen, Control, Types
  <1>8. Mark(t) = pkt /\ Mark(t)' = Result(t)'
    BY <1>2 DEF Mark
  <1>9. ~kind.reorder => Held = 0 /\ p[t].ctx.held = 0
    BY <1>3 DEF Made, Held
  <1>10. Held' = (IF kind.reorder /\ swap THEN pkt ELSE Held)
    BY <1>1, <1>2, <1>3, <1>5, <1>6 DEF Held
  <1>11. Result(t)' = (IF swap THEN Held ELSE IF pic /\ ~kind.reorder THEN pkt ELSE 0)
    BY <1>2, <1>5, <1>6 DEF Held
  <1>12. Made'
    <2>1. /\ returned' \subseteq made' \cap progress' /\ made' \subseteq taken'
          /\ (mpc' # "lock" => got' = 0 /\ ~err')
      BY <1>1, <1>2, <1>7 DEF Made
    <2>2. got' \in made' \cup {0}
      BY <1>1, <1>2 DEF Made
    <2>3. Held' \in made' \cup {0}
      BY <1>2, <1>10 DEF Made
    <2>4. ASSUME NEW u \in Threads
          PROVE  /\ ~BeforeSetup(u)' => Result(u)' \in made' \cup {0}
                 /\ ~kind.reorder => p'[u].ctx.held = 0
                 /\ Incomplete(u)' => p'[u].avpkt \in made'
      <3>1. CASE u = t
        BY <1>1, <1>2, <1>9, <1>11, <3>1 DEF Made
      <3>2. CASE u # t
        BY <1>2, <1>4, <3>2 DEF Made
      <3> QED
        BY <3>1, <3>2
    <2> QED
      BY <1>1, <2>1, <2>2, <2>3, <2>4 DEF Made
  <1>13. p[t].ctx.held \in Numbers
    BY FieldTypes DEF Control, Types
  <1> QED
    BY <1>1, <1>3, <1>4, <1>5, <1>6, <1>7, <1>8, <1>9, <1>10, <1>11, <1>12, <1>13

LEMMA SetupOrdered ==
  ASSUME Control, Seen, Made, Line, Ordered, Live, NEW t \in Threads, NEW pkt \in Numbers,
         NEW pic \in BOOLEAN, NEW swap \in BOOLEAN,
         SetupOf(t, pkt, pic, swap), Steps(t)
  PROVE  Ordered'
  <1>1. /\ mpc \notin Closing /\ next_finished \in Threads /\ returned \subseteq Nat
        /\ got \in Nat /\ pkt \in Nat /\ Held \in Nat
    BY Sizes DEF Live, Control, Types, Made
  <1>2. /\ \A u \in Threads \ {t} : (BeforeSetup(u)' <=> BeforeSetup(u)) /\ Mark(u)' = Mark(u)
        /\ kind.update => t = Front /\ t = Current
        /\ kind.reorder => kind.update
        /\ Mark(t) = pkt /\ Mark(t)' = Result(t)'
        /\ Held' = (IF kind.reorder /\ swap THEN pkt ELSE Held)
        /\ ~kind.reorder => Held = 0
        /\ Result(t)' = (IF swap THEN Held ELSE IF pic /\ ~kind.reorder THEN pkt ELSE 0)
    BY <1>1, SetupMade
  <1>3. /\ UNCHANGED <<got, returned, next_finished>> /\ BeforeSetup(t) /\ ~BeforeSetup(t)'
        /\ (swap => kind.reorder)
    BY DEF Steps, SetupOf
  <1>4. \A u \in Threads : Mark(u) \in Nat /\ Turn(u, next_finished) \in Nat
    BY <1>1, MarkFacts, TurnFacts, Sizes
  <1>5. \A x, f : Turn(x, f)' = Turn(x, f)
    BY DEF Turn
  \* The frames of the other threads are before the one held back, and their turns too.
  <1>6. ASSUME swap, NEW u \in Threads \ {t}, Mark(u) # 0
        PROVE  /\ ~BeforeSetup(u) /\ Turn(u, next_finished) < Turn(t, next_finished)
               /\ Held # 0 => Mark(u) < Held
               /\ pkt # 0 => Mark(u) < pkt
    <2>1. t = Current /\ kind.update
      BY <1>2, <1>3, <1>6
    <2>2. ~BeforeSetup(u)
      BY <2>1, BeforeIsCurrent
    <2>3. Turn(u, next_finished) <= Turn(t, next_finished)
      BY <1>6, <2>1, LastInTurn, MarkFacts
    <2>4. Turn(u, next_finished) # Turn(t, next_finished)
      BY <1>1, TurnFacts
    <2>5. Turn(u, next_finished) < Turn(t, next_finished)
      BY <1>4, <2>3, <2>4
    <2>6. Held # 0 => Mark(u) < Held
      BY <1>6, <2>2 DEF Ordered
    <2>7. pkt # 0 => Mark(u) < pkt
      BY <1>2, <1>6, <2>5 DEF Ordered
    <2> QED
      BY <2>2, <2>5, <2>6, <2>7
  <1>7. pkt # 0 => /\ got < pkt /\ (\A g \in returned : g < pkt) /\ (Held # 0 => Held < pkt)
    BY <1>2, <1>3 DEF Ordered
  <1>8. Held # 0 => got < Held /\ \A g \in returned : g < Held
    BY DEF Ordered
  <1>9. got # 0 => \A g \in returned : g < got
    BY DEF Ordered
  <1>10. PICK mark \in Nat, held \in Nat : mark = Mark(t)' /\ held = Held'
    BY <1>1, <1>2
  <1>11. \/ mark = 0 /\ held = Held
         \/ mark = pkt /\ held = Held /\ Held = 0 /\ ~swap
         \/ mark = Held /\ held = pkt /\ swap
    BY <1>2, <1>3, <1>10
  <1>12. ASSUME NEW u \in Threads, NEW v \in Threads, Mark(u)' # 0, Mark(v)' # 0,
                Turn(u, next_finished) < Turn(v, next_finished)
         PROVE  Mark(u)' < Mark(v)'
    <2>1. CASE u # t /\ v # t
      BY <1>2, <1>12, <2>1 DEF Ordered
    <2>2. CASE u = t /\ v = t
      BY <1>4, <1>12, <2>2
    <2>3. CASE u = t /\ v # t
      <3>1. mark # 0 /\ Mark(v) # 0
        BY <1>2, <1>10, <1>12, <2>3
      <3>2. ~swap
        BY <1>4, <1>6, <1>12, <2>3, <3>1
      <3>3. mark = pkt
        BY <1>11, <3>1, <3>2
      <3> QED
        BY <1>2, <1>10, <1>12, <2>3, <3>1, <3>3 DEF Ordered
    <2>4. CASE u # t /\ v = t
      <3>1. mark # 0 /\ Mark(u) # 0
        BY <1>2, <1>10, <1>12, <2>4
      <3>2. CASE swap
        BY <1>2, <1>6, <1>10, <1>11, <2>4, <3>1, <3>2
      <3>3. CASE ~swap
        BY <1>2, <1>10, <1>11, <1>12, <2>4, <3>1, <3>3 DEF Ordered
      <3> QED
        BY <3>2, <3>3
    <2> QED
      BY <2>1, <2>2, <2>3, <2>4
  <1>13. ASSUME NEW u \in Threads, Mark(u)' # 0
         PROVE  /\ got < Mark(u)'
                /\ \A g \in returned : g < Mark(u)'
                /\ held # 0 => (IF BeforeSetup(u)' THEN held < Mark(u)' ELSE Mark(u)' < held)
    <2>1. CASE u # t
      <3>1. /\ got < Mark(u) /\ (\A g \in returned : g < Mark(u)) /\ Mark(u) # 0
            /\ Held # 0 => (IF BeforeSetup(u) THEN Held < Mark(u) ELSE Mark(u) < Held)
        BY <1>2, <1>13, <2>1 DEF Ordered
      <3>2. held = pkt /\ swap /\ held # 0 => ~BeforeSetup(u) /\ Mark(u) < held
        BY <1>6, <2>1, <3>1
      <3> QED
        BY <1>2, <1>11, <2>1, <3>1, <3>2
    <2>2. CASE u = t
      <3>1. mark # 0 /\ ~BeforeSetup(u)'
        BY <1>3, <1>10, <1>13, <2>2
      <3>2. /\ got < mark /\ (\A g \in returned : g < mark) /\ (held # 0 => mark < held)
        BY <1>7, <1>8, <1>11, <3>1
      <3> QED
        BY <1>10, <2>2, <3>1, <3>2
    <2> QED
      BY <2>1, <2>2
  <1>14. held # 0 => got < held /\ \A g \in returned : g < held
    BY <1>7, <1>8, <1>11
  <1> QED
    BY <1>3, <1>5, <1>9, <1>10, <1>12, <1>13, <1>14 DEF Ordered, Turn

LEMMA DistinctPackets ==
  ASSUME Control, Ordered, NEW t \in Threads, NEW u \in Threads, u # t,
         BeforeSetup(t), BeforeSetup(u), p[t].avpkt # 0
  PROVE  p[u].avpkt # p[t].avpkt
  <1>1. Mark(t) = p[t].avpkt /\ Mark(u) = p[u].avpkt /\ Mark(t) \in Nat /\ Mark(u) \in Nat
    BY MarkFacts, Sizes
  <1>2. /\ Turn(t, next_finished) \in Nat /\ Turn(u, next_finished) \in Nat
        /\ Turn(t, next_finished) # Turn(u, next_finished)
    BY TurnFacts DEF Control, Types
  <1> QED
    BY <1>1, <1>2 DEF Ordered

LEMMA SetupKept ==
  ASSUME Control, Seen, Made, Line, Ordered, Kept, Complete, Live, NEW t \in Threads,
         NEW pkt \in Numbers, NEW pic \in BOOLEAN, NEW swap \in BOOLEAN,
         SetupOf(t, pkt, pic, swap), Steps(t)
  PROVE  Line' /\ Kept' /\ Complete'
  <1>1. /\ mpc \notin Closing /\ next_finished \in Threads /\ 0 \notin made
    BY Sizes DEF Live, Control, Types
  <1>2. /\ Current' = Current
        /\ \A u \in Threads \ {t} :
              /\ p'[u] = p[u]
              /\ (BeforeSetup(u)' <=> BeforeSetup(u))
              /\ (Decoding(u)' <=> Decoding(u))
              /\ (Incomplete(u)' <=> Incomplete(u))
              /\ Result(u)' = Result(u)
        /\ p'[t].avpkt = pkt
        /\ kind.update => t = Current
        /\ kind.reorder => kind.update
        /\ Held' = (IF kind.reorder /\ swap THEN pkt ELSE Held)
        /\ ~kind.reorder => Held = 0
        /\ Result(t)' = (IF swap THEN Held ELSE IF pic /\ ~kind.reorder THEN pkt ELSE 0)
    BY <1>1, SetupMade
  <1>3. /\ BeforeSetup(t) /\ ~BeforeSetup(t)' /\ Decoding(t)' /\ pkt = p[t].avpkt
        /\ (swap <=> kind.reorder /\ (pic \/ pkt = 0))
        /\ (Incomplete(t)' <=> pic) /\ (pic => pkt # 0) /\ ~Incomplete(t)
        /\ made' = made \cup (IF pic THEN {pkt} ELSE {})
        /\ UNCHANGED <<taken, returned, progress>> /\ pkt \notin made
    BY MarkFacts DEF SetupOf, Line
  <1>4. /\ UNCHANGED <<kind, mpc, avpkt, got, err, draining, draining_done, prev_thread,
                       next_decoding, next_finished>>
        /\ p[t].state # "INPUT_READY"
    BY DEF Steps
  <1>5. \A x, f : Turn(x, f)' = Turn(x, f)
    BY DEF Turn
  <1>6. Line'
    <2>1. ASSUME NEW u \in Threads, BeforeSetup(u)'
          PROVE  p'[u].avpkt \notin made'
      <3>1. u # t /\ BeforeSetup(u) /\ p'[u].avpkt = p[u].avpkt /\ p[u].avpkt \notin made
        BY <1>2, <1>3, <2>1 DEF Line
      <3>2. pic => p[u].avpkt # pkt
        <4> SUFFICES ASSUME pic
                     PROVE  p[u].avpkt # pkt
          OBVIOUS
        <4> QED
          BY <1>3, <3>1, DistinctPackets
      <3> QED
        BY <1>3, <3>1, <3>2
    <2>2. ASSUME NEW u \in Threads, ~BeforeSetup(u)', ~Decoding(u)'
          PROVE  p'[u].got_frame <=> p'[u].frame # 0
      BY <1>2, <1>3, <2>2 DEF Line
    <2> QED
      BY <2>1, <2>2 DEF Line
  <1>7. \A f \in made' : Known(f)'
    <2> SUFFICES ASSUME NEW f \in made'
                 PROVE  Known(f)'
      OBVIOUS
    <2>1. CASE f = pkt
      BY <1>2, <1>3, <1>1, <2>1 DEF Known
    <2>2. CASE f # pkt
      <3>1. Known(f)
        BY <1>3, <2>2 DEF Kept
      <3>2. CASE f \in returned \cup {got}
        BY <1>3, <1>4, <3>2 DEF Known
      <3>3. CASE f = Held
        <4>1. CASE swap
          BY <1>2, <1>3, <3>3, <4>1 DEF Known
        <4>2. CASE ~swap
          BY <1>2, <3>3, <4>2 DEF Known
        <4> QED
          BY <4>1, <4>2
      <3>4. CASE \E u \in Threads : ~BeforeSetup(u) /\ Result(u) = f
        <4>1. PICK u \in Threads : ~BeforeSetup(u) /\ Result(u) = f
          BY <3>4
        <4>2. ~BeforeSetup(u)' /\ Result(u)' = f
          BY <1>2, <1>3, <4>1
        <4> QED
          BY <4>2 DEF Known
      <3> QED
        BY <3>1, <3>2, <3>3, <3>4 DEF Known
    <2> QED
      BY <2>1, <2>2
  <1>8. Kept'
    <2>1. Current' # Main /\ ~BeforeSetup(Current)' /\ p'[Current'].avpkt = 0 => Held' = 0
      <3>1. CASE ~kind.reorder
        BY <1>2, <3>1
      <3>2. CASE kind.reorder
        <4>1. t = Current
          BY <1>2, <3>2
        <4> QED
          BY <1>2, <1>3, <3>2, <4>1
      <3> QED
        BY <3>1, <3>2
    <2>2. Submitting' \/ (mpc' = "fetch" /\ Submits(avpkt)') => p'[Current'].avpkt = avpkt'
      <3>1. /\ (Submitting' <=> Submitting) /\ (Submits(avpkt)' <=> Submits(avpkt))
        BY <1>4 DEF Submitting, Submits
      <3>2. Submitting \/ (mpc = "fetch" /\ Submits(avpkt)) =>
              Current \in Threads /\ p[Current].avpkt = avpkt
        BY CurrentThread DEF Kept
      <3> QED
        BY <1>2, <1>3, <1>4, <3>1, <3>2
    <2>3. ~AllDone
      BY <1>4 DEF AllDone, Clean
    <2>4. /\ draining_done' => draining' /\ mpc' = "user" /\ AllDone'
          /\ mpc' = "lock" /\ draining' /\ got' = 0 /\ ~err' => AllDone'
      BY <1>4, <2>3 DEF Kept
    <2> QED
      BY <1>7, <2>1, <2>2, <2>4 DEF Kept
  <1>9. Complete'
    <2>1. got' \in progress' \cup {0}
      BY <1>3, <1>4 DEF Complete
    <2>2. \A f \in made' : f \in progress' \/ \E u \in Threads : Incomplete(u)' /\ p'[u].avpkt = f
      <3> SUFFICES ASSUME NEW f \in made', f \notin progress'
                   PROVE  \E u \in Threads : Incomplete(u)' /\ p'[u].avpkt = f
        OBVIOUS
      <3>1. CASE f = pkt /\ pic
        BY <1>2, <1>3, <3>1
      <3>2. CASE f \in made
        <4>1. PICK u \in Threads : Incomplete(u) /\ p[u].avpkt = f
          BY <1>3, <3>2 DEF Complete
        <4> QED
          BY <1>2, <1>3, <4>1
      <3> QED
        BY <1>3, <3>1, <3>2
    <2>3. ASSUME NEW u \in Threads, NEW v \in Threads,
                 Incomplete(u)', ~BeforeSetup(v)', Result(v)' = p'[u].avpkt
          PROVE  Turn(u, next_finished) <= Turn(v, next_finished)
      <3>1. CASE u = v
        BY <1>1, <3>1, TurnFacts
      <3>2. CASE u = t /\ v # t
        <4>1. Result(v) = pkt /\ ~BeforeSetup(v) /\ pkt # 0
          BY <1>2, <1>3, <2>3, <3>2
        <4> QED
          BY <1>3, <4>1 DEF Made
      <3>3. CASE u # t /\ v = t
        <4>1. Incomplete(u) /\ p[u].avpkt \in made /\ Result(t)' = p[u].avpkt
          BY <1>2, <2>3, <3>3 DEF Made
        <4>2. swap
          BY <1>1, <1>2, <1>3, <4>1
        <4>3. t = Current /\ ~Clean(u)
          BY <1>2, <1>3, <4>1, <4>2, MarkFacts
        <4> QED
          BY <3>3, <4>3, LastInTurn
      <3>4. CASE u # t /\ v # t
        BY <1>2, <2>3, <3>4 DEF Complete
      <3> QED
        BY <3>1, <3>2, <3>3, <3>4
    <2> QED
      BY <1>4, <1>5, <2>1, <2>2, <2>3 DEF Complete, Turn
  <1> QED
    BY <1>6, <1>8, <1>9

LEMMA WorkerFrames ==
  ASSUME Control, Seen, Frames, NEW t \in Threads, WorkerStep(t)
  PROVE  Frames'
  <1>1. CASE Die(t)
    <2>1. mpc \in Closing /\ mpc' = mpc
      BY <1>1 DEF Die, kept, Control, Parked
    <2> QED
      BY <2>1 DEF Frames, Live
  <1>2. CASE ~Die(t) /\ ~Setup(t)
    BY <1>2, WorkerQuiet
  <1>3. CASE ~Die(t) /\ Setup(t)
    <2>1. PICK pkt \in Numbers, pic, swap \in BOOLEAN : SetupOf(t, pkt, pic, swap)
      BY <1>3, SetupFacts
    <2>2. Steps(t) /\ mpc' = mpc
      BY <1>3, WorkerSteps DEF Steps
    <2>3. mpc \notin Closing => Made'
      BY <2>1, <2>2, SetupMade DEF Frames
    <2>4. Live => Line' /\ Ordered' /\ Kept' /\ Complete'
      <3> SUFFICES ASSUME Live
                   PROVE  Line' /\ Ordered' /\ Kept' /\ Complete'
        OBVIOUS
      <3>1. Made /\ Line /\ Ordered /\ Kept /\ Complete
        BY DEF Frames, Live
      <3> QED
        BY <2>1, <2>2, <3>1, SetupOrdered, SetupKept
    <2> QED
      BY <2>2, <2>3, <2>4 DEF Frames, Live
  <1> QED
    BY <1>1, <1>2, <1>3

\* The steps of a call that give no packet to a thread and take no frame from one.
Passive == ~Transfer /\ ~Fetch /\ ~Return /\ ~Flushed /\ ~Freeing

LEMMA CallerQuiet ==
  ASSUME Control, Made, mpc \notin Closing, Client \/ CallStep \/ SpuriousWakeup, Passive
  PROVE  /\ Quiet /\ got' = got /\ next_finished' = next_finished
         /\ mpc' # "lock" => got' = 0 /\ ~err'
         /\ ~Idle => \A t \in Threads : /\ p'[t].frame = p[t].frame
                                        /\ p'[t].got_frame = p[t].got_frame
  <1>1. /\ UNCHANGED <<kind, made, returned, taken, progress>> /\ Front' = Front
        /\ Front \in Threads
        /\ \A t \in Threads :
             /\ p'[t].outcome = p[t].outcome /\ p'[t].avpkt = p[t].avpkt
             /\ (Decoding(t)' <=> Decoding(t))
             /\ (BeforeSetup(t)' <=> BeforeSetup(t))
             /\ p'[t].out = p[t].out
    BY CallerGoesOn, CallerFront, CallerThreads, CallerContexts DEF Passive
  <1>2. wpc' = wpc
    BY CallerThreads
  <1>3. \A t \in Threads : Incomplete(t)' <=> Incomplete(t)
    BY <1>1, <1>2 DEF Incomplete
  <1>4. \A t \in Threads : p'[t].frame = p[t].frame
    <2>1. CASE Idle
      <3>1. i \in Threads /\ p' = [p EXCEPT ![i].got_frame = FALSE]
        BY <2>1, Sizes DEF Idle, Control, Types
      <3> QED
        BY <3>1 DEF Control, Types, ThreadType
    <2>2. CASE ~Idle
      BY <2>2, CallerContexts DEF Passive
    <2> QED
      BY <2>1, <2>2
  <1>5. \A t \in Threads : Result(t)' = Result(t)
    BY <1>1, <1>4 DEF Result
  <1>6. Held' = Held /\ \A t \in Threads : ~kind.reorder => p'[t].ctx.held = 0
    <2>1. CASE UpdateContext
      <3>1. /\ prev_thread \in Threads /\ next_decoding \in Threads /\ Front = prev_thread
            /\ p' = CopyContext(next_decoding, prev_thread)
        BY <2>1, NextIsIdle, Sizes DEF UpdateContext, Control, OneSetup, Types, Front, Current, Submitting
      <3>2. /\ \A t \in Threads \ {next_decoding} : p'[t] = p[t]
            /\ p'[next_decoding].ctx = IF kind.update THEN p[prev_thread].ctx
                                       ELSE p[next_decoding].ctx
        BY <3>1, ContextType DEF Control, Types
      <3>3. p'[Front].ctx.held = p[Front].ctx.held
        BY <3>1, <3>2
      <3> QED
        BY <1>1, <3>1, <3>2, <3>3 DEF Held, Made
    <2>2. CASE ~UpdateContext
      <3>1. \A t \in Threads : p'[t].ctx = p[t].ctx
        BY <2>2, CallerContexts DEF Passive
      <3> QED
        BY <1>1, <3>1 DEF Held, Made
    <2> QED
      BY <2>1, <2>2
  <1>7. Quiet
    BY <1>1, <1>3, <1>5, <1>6 DEF Quiet
  <1>8. /\ got' = got /\ next_finished' = next_finished
        /\ mpc' # "lock" => got' = 0 /\ ~err'
    <2>1. mpc # "lock" => got = 0 /\ ~err
      BY DEF Made
    <2>2. CASE SendPacket \/ Drain \/ Flush \/ Free
      BY <2>1, <2>2 DEF SendPacket, Drain, Enter, Flush, Free, Park, fctx
    <2>3. CASE SpuriousWakeup \/ Submit \/ AwaitSetup \/ UpdateContext \/ UpdateFails
      BY <2>1, <2>3 DEF SpuriousWakeup, Submit, AwaitSetup, UpdateContext, UpdateFails, call, fctx
    <2>4. CASE AwaitRequest \/ ServeBuffer \/ ServeFormat \/ Served \/ Submitted
      BY <2>1, <2>4 DEF AwaitRequest, ServeBuffer, ServeFormat, Served, Serving, Submitted, call, fctx
    <2>5. CASE AwaitOutput \/ AwaitIdle \/ Idle
      BY <2>1, <2>5 DEF AwaitOutput, AwaitIdle, Idle, call, fctx
    <2>6. CASE Kill \/ Join \/ Freed
      BY <2>6 DEF Kill, Join, Freed, Closing
    <2> QED
      BY <2>2, <2>3, <2>4, <2>5, <2>6 DEF Client, CallStep, Passive
  <1> QED
    BY <1>7, <1>8, CallerContexts DEF Passive

\* What Kept says of the call.
LEMMA CallerKept ==
  ASSUME Control, Made, Kept, Live, Live', Client \/ CallStep \/ SpuriousWakeup, Passive
  PROVE  /\ Current' # Main /\ ~BeforeSetup(Current)' /\ p'[Current'].avpkt = 0 => Held' = 0
         /\ Submitting' \/ (mpc' = "fetch" /\ Submits(avpkt)') => p'[Current'].avpkt = avpkt'
         /\ draining_done' => draining' /\ mpc' = "user" /\ AllDone'
         /\ mpc' = "lock" /\ draining' /\ got' = 0 /\ ~err' => AllDone'
  <1>1. /\ mpc \notin Closing /\ mpc # "park" /\ mpc' \notin Closing /\ mpc' # "park"
        /\ Call /\ kind' = kind /\ Flags
    BY CallerThreads DEF Live, Control
  <1>2. /\ Quiet /\ got' = got /\ Current' = Current
        /\ Current \in Threads \cup {Main}
    <2>1. Quiet /\ got' = got
      BY <1>1, CallerQuiet
    <2>2. Current' = Current
      BY CallerFront DEF Passive
    <2>3. Submitting => Current \in Threads
      BY CurrentThread
    <2>4. ~Submitting => Current \in Threads \cup {Main}
      BY DEF Current, Control, Types
    <2> QED
      BY <2>1, <2>2, <2>3, <2>4
  <1>3. \A t \in Threads : p'[t].avpkt = p[t].avpkt /\ (BeforeSetup(t)' <=> BeforeSetup(t))
    BY <1>2 DEF Quiet
  <1>4. Current' # Main /\ ~BeforeSetup(Current)' /\ p'[Current'].avpkt = 0 => Held' = 0
    BY <1>2, <1>3 DEF Kept, Quiet
  <1>5. CASE SpuriousWakeup \/ AwaitSetup \/ AwaitRequest \/ AwaitOutput \/ AwaitIdle
    <2>1. UNCHANGED <<mpc, avpkt, got, err, draining, draining_done, p, made, returned>>
      BY <1>5 DEF SpuriousWakeup, AwaitSetup, AwaitRequest, AwaitOutput, AwaitIdle, call, client, history
    <2>2. /\ (Submitting' <=> Submitting) /\ (Submits(avpkt)' <=> Submits(avpkt))
          /\ (AllDone' <=> AllDone)
      BY <1>1, <2>1 DEF Submitting, Submits, AllDone, Clean
    <2> QED
      BY <1>2, <1>4, <2>1, <2>2 DEF Kept
  <1>6. CASE SendPacket \/ Drain
    <2>1. /\ mpc' \in {"submit", "submitted"} /\ ~Submitting' /\ ~draining_done'
      BY <1>1, <1>6 DEF SendPacket, Drain, Enter, Submitting, Submits, Kept, Flags
    <2> QED
      BY <1>4, <2>1
  <1>7. CASE Submit \/ UpdateContext \/ UpdateFails
    <2>1. /\ mpc' \in {"update", "transfer", "lock"} /\ (mpc' = "lock" => err')
          /\ mpc # "user" /\ draining_done' = draining_done
      BY <1>7 DEF Submit, UpdateContext, UpdateFails, client
    <2> QED
      BY <1>4, <2>1 DEF Submitting, Kept
  <1>8. CASE ServeBuffer \/ ServeFormat \/ Served
    <2>1. /\ mpc = "serve" /\ mpc' \in {"serve", "submitted"}
          /\ UNCHANGED <<avpkt, draining_done>>
      BY <1>8 DEF ServeBuffer, ServeFormat, Served, Serving, call, client
    <2>2. Submitting /\ Current \in Threads
      BY <2>1, CurrentThread DEF Submitting
    <2> QED
      BY <1>2, <1>3, <1>4, <2>1, <2>2 DEF Kept
  <1>9. CASE Submitted
    <2>1. /\ mpc = "submitted" /\ mpc' = (IF delaying' /\ avpkt # 0 THEN "lock" ELSE "fetch")
          /\ UNCHANGED <<avpkt, draining, draining_done>>
      BY <1>9 DEF Submitted, call, client
    <2>2. ~Submitting' /\ (Submits(avpkt)' <=> Submits(avpkt))
      BY <1>1, <2>1 DEF Submitting, Submits
    <2>3. Submits(avpkt) => Submitting /\ Current \in Threads /\ p[Current].avpkt = avpkt
      BY <2>1, CurrentThread DEF Submitting, Kept
    <2>4. mpc' = "lock" => ~draining'
      BY <1>1, <2>1 DEF Call, Calling
    <2> QED
      BY <1>2, <1>3, <1>4, <2>1, <2>2, <2>3, <2>4 DEF Kept
  <1>10. CASE Flush \/ Free \/ Idle \/ Kill \/ Join \/ Freed
    BY <1>1, <1>10 DEF Flush, Free, Park, Idle, Kill, Join, Freed, Closing
  <1> QED
    BY <1>5, <1>6, <1>7, <1>8, <1>9, <1>10 DEF Client, CallStep, Passive

LEMMA CallerPassive ==
  ASSUME Control, Seen, Frames, Client \/ CallStep \/ SpuriousWakeup, Passive,
         mpc \notin Closing
  PROVE  Frames'
  <1>1. Made /\ Made'
    <2>1. Made
      BY DEF Frames
    <2> QED
      BY <2>1, CallerQuiet, QuietMade
  <1>2. ASSUME Live'
        PROVE  Line' /\ Ordered' /\ Kept' /\ Complete'
    <2>1. mpc # "park"
      BY <1>2 DEF Live, Client, SendPacket, Drain, Flush, Free, CallStep, Submit, AwaitSetup,
         UpdateContext, UpdateFails, AwaitRequest, ServeBuffer, ServeFormat, Served, Serving,
         Submitted, AwaitOutput, AwaitIdle, Idle, Kill, Join, Freed, SpuriousWakeup, Passive
    <2>2. Live /\ Line /\ Ordered /\ Kept /\ Complete
      BY <2>1 DEF Live, Frames
    <2>3. ~Idle
      BY <2>1 DEF Idle
    <2>4. /\ Quiet /\ UNCHANGED <<got, next_finished>>
          /\ \A t \in Threads : p'[t].frame = p[t].frame /\ p'[t].got_frame = p[t].got_frame
      BY <1>1, <2>3, CallerQuiet
    <2>5. \A t \in Threads : /\ (BeforeSetup(t)' <=> BeforeSetup(t))
                             /\ (Decoding(t)' <=> Decoding(t))
      BY CallerGoesOn DEF Passive
    <2>6. \A t \in Threads : ~BeforeSetup(t)' /\ ~Decoding(t)' =>
            (p'[t].got_frame <=> p'[t].frame # 0)
      BY <2>2, <2>4, <2>5 DEF Line
    <2>7. Line' /\ Ordered' /\ Complete' /\ \A f \in made' : Known(f)'
      BY <2>2, <2>4, <2>6, QuietFrames DEF Kept
    <2>8. Kept'
      BY <1>1, <1>2, <2>2, <2>7, CallerKept DEF Kept
    <2> QED
      BY <2>7, <2>8
  <1> QED
    BY <1>1, <1>2 DEF Frames

-----------------------------------------------------------------------------
(* A packet is given, a frame is taken.                                    *)

LEMMA TransferFrames ==
  ASSUME Control, Seen, Frames, Transfer
  PROVE  Frames'
  <1>1. /\ Live /\ Made /\ Line /\ Ordered /\ Kept /\ Complete /\ mpc = "transfer"
        /\ got = 0 /\ ~err
    BY DEF Frames, Live, Transfer, Closing, Made
  <1>17. PICK n \in Threads : n = next_decoding
    BY TransferFacts
  <1>2. /\ n \in Threads /\ Clean(n) /\ wpc' = wpc /\ wpc[n] = "wait" /\ kind' = kind
        /\ \A u \in Threads \ {n} : p'[u] = p[u]
        /\ p'[n].avpkt = avpkt /\ p'[n].state = "SETTING_UP" /\ p'[n].frame = p[n].frame
        /\ p'[n].ctx = p[n].ctx /\ p'[n].back = p[n].back /\ p'[n].outcome = p[n].outcome
        /\ mpc' \in {"submitted", "serve"}
    BY <1>17, TransferFacts DEF ThreadType
  <1>3. /\ UNCHANGED <<avpkt, got, err, draining, draining_done, prev_thread, next_decoding,
                       next_finished, made, returned, progress>>
        /\ taken' = taken \cup ({avpkt} \ {0})
    BY DEF Transfer, call, client, fctx, frames
  <1>4. /\ Front' = n /\ Current' = n /\ Front \in Threads /\ Submits(avpkt)
        /\ (Submits(avpkt)' <=> Submits(avpkt))
    BY <1>1, <1>2, <1>3, <1>17, CallerFront DEF CallStep, Control, Call, Submits
  <1>5. BeforeSetup(n)' /\ ~BeforeSetup(n) /\ ~Decoding(n) /\ ~Decoding(n)' /\ Result(n) = 0
    BY <1>2 DEF BeforeSetup, Decoding, FinishingSetup, Clean, Result
  <1>6. \A u \in Threads \ {n} :
          /\ (BeforeSetup(u)' <=> BeforeSetup(u)) /\ (Decoding(u)' <=> Decoding(u))
          /\ (Incomplete(u)' <=> Incomplete(u)) /\ Result(u)' = Result(u) /\ Mark(u)' = Mark(u)
    BY <1>2 DEF BeforeSetup, Decoding, Incomplete, Result, Mark
  <1>7. ~Incomplete(n) /\ ~Incomplete(n)' /\ Mark(n)' = avpkt /\ Mark(n) = 0
    BY <1>2, <1>5 DEF Incomplete, Mark
  <1>8. /\ taken \subseteq Nat /\ made \subseteq taken /\ returned \subseteq made /\ 0 \notin taken
        /\ avpkt \in Nat /\ next_finished \in Threads /\ Held \in made \cup {0}
    BY <1>1, Sizes DEF Control, Types, Made
  <1>9. avpkt # 0 => \A f \in taken : f < avpkt
    BY <1>1 DEF Seen
  <1>10. Held' = Held
    <2>1. CASE kind.update
      <3>1. p[n].ctx = p[Front].ctx
        BY <1>1, <1>17, <2>1 DEF Seen, Closing
      <3> QED
        BY <1>2, <1>4, <3>1 DEF Held
    <2>2. CASE ~kind.update
      <3>1. ~kind.reorder
        BY <2>2, KindFacts DEF Control, Types
      <3> QED
        BY <1>1, <1>2, <1>4, <3>1 DEF Held, Made
    <2> QED
      BY <2>1, <2>2
  <1>11. \A x, f : Turn(x, f)' = Turn(x, f)
    BY DEF Turn
  <1>12. Made'
    <2>1. \A u \in Threads : ~kind.reorder => p'[u].ctx.held = 0
      BY <1>1, <1>2 DEF Made
    <2>2. returned' \subseteq made' \cap progress' /\ made' \subseteq taken'
      BY <1>1, <1>3 DEF Made
    <2>3. \A u \in Threads :
            /\ ~BeforeSetup(u)' => Result(u)' \in made' \cup {0}
            /\ Incomplete(u)' => p'[u].avpkt \in made'
      BY <1>1, <1>2, <1>3, <1>5, <1>6, <1>7 DEF Made
    <2> QED
      BY <1>1, <1>2, <1>3, <1>8, <1>10, <2>1, <2>2, <2>3 DEF Made
  <1>13. Line'
    <2>1. avpkt \notin made
      BY <1>8, <1>9
    <2> QED
      BY <1>1, <1>2, <1>3, <1>5, <1>6, <2>1 DEF Line
  <1>14. Ordered'
    <2>1. \A u \in Threads \ {n} : Mark(u) # 0 => Mark(u) \in taken /\ ~Clean(u)
      <3> SUFFICES ASSUME NEW u \in Threads \ {n}, Mark(u) # 0
                   PROVE  Mark(u) \in taken /\ ~Clean(u)
        OBVIOUS
      <3>1. Mark(u) = (IF BeforeSetup(u) THEN p[u].avpkt ELSE Result(u)) /\ ~Clean(u)
        BY MarkFacts
      <3> QED
        BY <1>1, <1>8, <3>1 DEF Seen, Made
    <2>2. \A u \in Threads \ {n} : Mark(u) # 0 => Turn(u, next_finished) < Turn(n, next_finished)
      <3>1. ~Submitting
        BY <1>1 DEF Submitting
      <3> QED
        BY <1>1, <1>17, <2>1, <3>1 DEF Control, InTurn, Calling
    <2>3. ASSUME NEW u \in Threads, NEW v \in Threads, Mark(u)' # 0, Mark(v)' # 0,
                 Turn(u, next_finished) < Turn(v, next_finished)
          PROVE  Mark(u)' < Mark(v)'
      <3>0. /\ Turn(u, next_finished) \in Nat /\ Turn(v, next_finished) \in Nat
        BY <1>8, TurnFacts
      <3>1. CASE u # n /\ v # n
        BY <1>1, <1>6, <2>3, <3>1 DEF Ordered
      <3>2. CASE u # n /\ v = n
        BY <1>6, <1>7, <1>9, <2>1, <2>3, <3>2
      <3>3. CASE u = n
        BY <1>6, <2>2, <2>3, <3>0, <3>3
      <3> QED
        BY <3>1, <3>2, <3>3
    <2>4. ASSUME NEW u \in Threads, Mark(u)' # 0
          PROVE  /\ got < Mark(u)'
                 /\ \A g \in returned : g < Mark(u)'
                 /\ Held # 0 => (IF BeforeSetup(u)' THEN Held < Mark(u)' ELSE Mark(u)' < Held)
      <3>1. CASE u # n
        BY <1>1, <1>6, <2>4, <3>1 DEF Ordered
      <3>2. CASE u = n
        BY <1>1, <1>5, <1>7, <1>8, <1>9, <2>4, <3>2
      <3> QED
        BY <3>1, <3>2
    <2> QED
      BY <1>1, <1>3, <1>10, <1>11, <2>3, <2>4 DEF Ordered, Turn
  <1>15. Kept'
    <2>1. \A f \in made' : Known(f)'
      <3> SUFFICES ASSUME NEW f \in made
                   PROVE  Known(f)'
        BY <1>3
      <3>1. Known(f) /\ f # 0
        BY <1>1, <1>8 DEF Kept
      <3>2. CASE f \in returned \cup {got, Held}
        BY <1>3, <1>10, <3>2 DEF Known
      <3>3. CASE \E t \in Threads : ~BeforeSetup(t) /\ Result(t) = f
        <4>1. PICK t \in Threads : ~BeforeSetup(t) /\ Result(t) = f
          BY <3>3
        <4>2. ~BeforeSetup(t)' /\ Result(t)' = f
          BY <1>5, <1>6, <3>1, <4>1
        <4> QED
          BY <4>2 DEF Known
      <3> QED
        BY <3>1, <3>2, <3>3 DEF Known
    <2>2. ~draining_done' /\ mpc' # "lock" /\ mpc' # "fetch"
      BY <1>1, <1>2, <1>3 DEF Kept
    <2> QED
      BY <1>2, <1>3, <1>4, <1>5, <2>1, <2>2 DEF Kept
  <1>16. Complete'
    <2>1. \A f \in made' : f \in progress' \/ \E t \in Threads : Incomplete(t)' /\ p'[t].avpkt = f
      <3> SUFFICES ASSUME NEW f \in made, f \notin progress
                   PROVE  \E t \in Threads : Incomplete(t)' /\ p'[t].avpkt = f
        BY <1>3
      <3>1. PICK t \in Threads : Incomplete(t) /\ p[t].avpkt = f
        BY <1>1 DEF Complete
      <3> QED
        BY <1>2, <1>6, <1>7, <3>1
    <2>2. ASSUME NEW t \in Threads, NEW u \in Threads,
                 Incomplete(t)', ~BeforeSetup(u)', Result(u)' = p'[t].avpkt
          PROVE  Turn(t, next_finished) <= Turn(u, next_finished)
      BY <1>1, <1>2, <1>5, <1>6, <1>7, <2>2 DEF Complete
    <2> QED
      BY <1>1, <1>3, <1>11, <2>1, <2>2 DEF Complete, Turn
  <1> QED
    BY <1>12, <1>13, <1>14, <1>15, <1>16 DEF Frames

LEMMA ReturnFrames ==
  ASSUME Control, Seen, Frames, Return
  PROVE  Frames'
  <1>1. /\ Live /\ Made /\ Line /\ Ordered /\ Kept /\ Complete /\ mpc = "lock" /\ mpc' = "user"
    BY DEF Frames, Live, Return, Closing
  <1>2. /\ UNCHANGED <<kind, draining, prev_thread, next_decoding, next_finished, p, wpc, taken,
                       made, progress>>
        /\ returned' = returned \cup ({got} \ {0}) /\ got' = 0 /\ err' = FALSE
        /\ draining_done' = (draining_done \/ (draining /\ got = 0 /\ ~err))
    BY DEF Return, fctx, frames
  <1>3. /\ \A t \in Threads : /\ (BeforeSetup(t)' <=> BeforeSetup(t))
                              /\ (Decoding(t)' <=> Decoding(t))
                              /\ (Incomplete(t)' <=> Incomplete(t))
                              /\ Result(t)' = Result(t) /\ Mark(t)' = Mark(t)
                              /\ (Clean(t)' <=> Clean(t))
        /\ \A x, f : Turn(x, f)' = Turn(x, f)
    BY <1>2 DEF BeforeSetup, Decoding, Incomplete, Result, Mark, Clean, Turn
  <1>4. /\ ~Submitting /\ ~Submitting' /\ Current' = Current /\ Front' = Front /\ Held' = Held
    BY <1>1, <1>2 DEF Submitting, Current, Front, Held
  <1>5. ~draining_done /\ got \in made \cup {0} /\ got \in progress \cup {0}
    BY <1>1 DEF Kept, Made, Complete
  <1>6. Made'
    BY <1>1, <1>2, <1>3, <1>4, <1>5 DEF Made
  <1>7. Line'
    BY <1>1, <1>2, <1>3 DEF Line
  <1>8. Ordered'
    <2>1. /\ \A t \in Threads : Mark(t) \in Nat
          /\ Held \in Nat
      <3>1. Held \in Numbers
        BY <1>1 DEF Made, Control, Types, Numbers
      <3> QED
        BY <3>1, MarkFacts, Sizes
    <2>2. ASSUME NEW t \in Threads, Mark(t) # 0
          PROVE  /\ 0 < Mark(t) /\ \A g \in returned' : g < Mark(t)
                 /\ Held # 0 => (IF BeforeSetup(t) THEN Held < Mark(t) ELSE Mark(t) < Held)
      BY <1>1, <1>2, <2>1, <2>2 DEF Ordered
    <2>3. Held # 0 => 0 < Held /\ \A g \in returned' : g < Held
      BY <1>1, <1>2, <2>1 DEF Ordered
    <2> QED
      BY <1>1, <1>2, <1>3, <1>4, <2>2, <2>3 DEF Ordered, Turn
  <1>9. Kept'
    <2>1. \A f \in made' : Known(f)'
      BY <1>1, <1>2, <1>3, <1>4 DEF Kept, Known
    <2>2. AllDone /\ got = 0 => AllDone'
      BY <1>2, <1>3 DEF AllDone
    <2>3. draining_done' => draining' /\ AllDone'
      BY <1>1, <1>2, <1>5, <2>2 DEF Kept
    <2>4. Current' # Main /\ ~BeforeSetup(Current)' /\ p'[Current'].avpkt = 0 => Held' = 0
      <3>1. Current \in Threads \cup {Main}
        BY <1>4 DEF Current, Control, Types
      <3> QED
        BY <1>1, <1>2, <1>3, <1>4, <3>1 DEF Kept
    <2> QED
      BY <1>1, <1>4, <2>1, <2>3, <2>4 DEF Kept
  <1>10. Complete'
    BY <1>1, <1>2, <1>3 DEF Complete, Turn
  <1> QED
    BY <1>6, <1>7, <1>8, <1>9, <1>10 DEF Frames

\* After a flush nothing is left.
LEMMA FlushedFrames ==
  ASSUME Control, Seen, Frames, Flushed
  PROVE  Frames'
  <1>1. /\ Made /\ mpc = "park" /\ mpc' = "user" /\ kind' = kind /\ wpc' = wpc
        /\ Front' = 0 /\ Current' = Main /\ got = 0 /\ ~err
        /\ \A u \in Threads : p[u].state = "INPUT_READY"
    <2>1. /\ mpc = "park" /\ mpc' = "user" /\ i = ThreadCount
      BY DEF Flushed
    <2>2. \A u \in Threads : u < ThreadCount
      BY Sizes
    <2> QED
      BY <2>1, <2>2, CallerThreads, CallerFront DEF CallStep, Frames, Closing, Made, Control, Parked
  <1>2. /\ \A u \in Threads : Clean(u)' /\ ~BeforeSetup(u)' /\ ~Decoding(u)' /\ ~Incomplete(u)'
        /\ \A u \in Threads : Result(u)' = 0 /\ Mark(u)' = 0 /\ p'[u].ctx.held = 0
                              /\ p'[u].frame = 0 /\ p'[u].got_frame = FALSE
    <2>1. ASSUME NEW u \in Threads
          PROVE  /\ p'[u].state = "INPUT_READY" /\ p'[u].frame = 0 /\ p'[u].got_frame = FALSE
                 /\ p'[u].failed = FALSE /\ p'[u].ctx.held = 0
                 /\ wpc'[u] \in {"wait", "exit"}
      BY ZenonT(30), <1>1, FlushedFacts DEF Alike, Control, ThreadAt, StateAt
    <2> QED
      BY <2>1 DEF Clean, BeforeSetup, Decoding, Incomplete, Result, Mark, FinishingSetup
  <1>3. Held' = 0
    BY <1>1, <1>2, Sizes DEF Held
  <1>4. /\ UNCHANGED <<got, err, taken, returned, progress>> /\ made' = returned
        /\ ~draining' /\ ~draining_done'
    BY DEF Flushed, frames
  <1>5. Made'
    BY <1>1, <1>2, <1>3, <1>4 DEF Made
  <1>6. Line' /\ Ordered'
    BY <1>1, <1>2, <1>3, <1>4 DEF Line, Ordered
  <1>7. ~Submitting'
    BY <1>1 DEF Submitting
  <1>8. Kept'
    BY <1>1, <1>3, <1>4, <1>7 DEF Kept, Known
  <1>9. Complete'
    BY <1>1, <1>2, <1>4 DEF Complete, Made
  <1> QED
    BY <1>5, <1>6, <1>8, <1>9 DEF Frames

\* A call takes the frame of the thread whose turn it is.
LEMMA FetchFrames ==
  ASSUME Control, Seen, Frames, Fetch
  PROVE  Frames'
  <1>1. /\ Live /\ Made /\ Line /\ Ordered /\ Kept /\ Complete /\ mpc = "fetch"
        /\ got = 0 /\ ~err /\ Flags
    BY DEF Frames, Live, Fetch, Closing, Made, Control
  <1>2. PICK n \in Threads : n = i
    BY FetchFacts
  <1>3. PICK m \in Threads : m = After(n)
    BY TurnAfter DEF Control, Types
  <1>4. /\ UNCHANGED <<kind, avpkt, draining, draining_done, prev_thread, wpc, taken, made,
                       returned, progress>>
        /\ p[n].state = "INPUT_READY" /\ i' = m
        /\ got' = (IF p[n].got_frame THEN p[n].frame ELSE 0) /\ err' = p[n].failed
        /\ mpc' \in {"fetch", "lock"}
        /\ \/ /\ next_finished' = next_finished /\ mpc' = "fetch" /\ ~p[n].got_frame
              /\ ~p[n].failed
           \/ /\ next_finished' = m /\ mpc' = "lock"
              /\ \/ avpkt # 0 \/ p[n].got_frame \/ p[n].failed
                 \/ m = next_finished
    BY <1>1, <1>2, <1>3 DEF Fetch, OutputReady, client, frames, history, After
  <1>5. /\ p[n] \in ThreadType
        /\ p'[n] = [p[n] EXCEPT !.frame = 0, !.got_frame = FALSE, !.failed = FALSE]
        /\ \A u \in Threads \ {n} : p'[u] = p[u]
    BY <1>2, FetchFacts
  <1>6. /\ p'[n].state = "INPUT_READY" /\ p'[n].frame = 0 /\ p'[n].got_frame = FALSE
        /\ p'[n].failed = FALSE /\ p'[n].ctx = p[n].ctx /\ p'[n].avpkt = p[n].avpkt
        /\ p'[n].outcome = p[n].outcome
    <2>1. PICK x \in ThreadType : x = p[n]
      BY <1>5
    <2>2. p'[n] = [x EXCEPT !.frame = 0, !.got_frame = FALSE, !.failed = FALSE]
      BY <1>5, <2>1
    <2> QED
      BY <1>4, <2>1, <2>2 DEF ThreadType
  <1>7. /\ Current' = Current /\ Front' = Front /\ Front \in Threads /\ ~Submitting
        /\ ~Submitting' /\ (Submits(avpkt)' <=> Submits(avpkt)) /\ Held' = Held
    <2>1. Current' = Current /\ Front' = Front /\ Front \in Threads
      BY CallerFront, <1>1 DEF CallStep, Transfer, Flushed
    <2>2. ~Submitting /\ ~Submitting' /\ (Submits(avpkt)' <=> Submits(avpkt))
      BY <1>1, <1>4 DEF Submitting, Submits
    <2>3. Held' = Held
      BY <1>5, <1>6, <2>1 DEF Held
    <2> QED
      BY <2>1, <2>2, <2>3
  <1>8. /\ ~BeforeSetup(n) /\ ~BeforeSetup(n)' /\ ~Decoding(n) /\ ~Decoding(n)'
        /\ ~Incomplete(n) /\ ~Incomplete(n)' /\ Clean(n)'
        /\ Result(n) = p[n].frame /\ Result(n)' = 0 /\ Mark(n)' = 0 /\ Mark(n) = p[n].frame
    <2>1. wpc[n] \in {"wait", "exit"} /\ wpc' = wpc
      BY <1>4 DEF Control, ThreadAt, StateAt
    <2>2. ~Decoding(n) /\ ~Decoding(n)'
      BY <2>1 DEF Decoding, FinishingSetup
    <2>3. ~BeforeSetup(n) /\ ~BeforeSetup(n)'
      BY <1>4, <1>6 DEF BeforeSetup
    <2> QED
      BY <1>6, <2>2, <2>3 DEF Incomplete, Clean, Result, Mark
  <1>9. \A u \in Threads \ {n} :
          /\ (BeforeSetup(u)' <=> BeforeSetup(u)) /\ (Decoding(u)' <=> Decoding(u))
          /\ (Incomplete(u)' <=> Incomplete(u)) /\ Result(u)' = Result(u) /\ Mark(u)' = Mark(u)
          /\ (Clean(u)' <=> Clean(u))
    BY <1>4, <1>5 DEF BeforeSetup, Decoding, Incomplete, Result, Mark, Clean
  <1>10. got' = p[n].frame
    BY <1>1, <1>4, <1>8 DEF Line
  <1>11. /\ next_finished \in Threads /\ p[n].frame \in Nat /\ Held \in Nat
         /\ \A u \in Threads : Mark(u) \in Nat /\ Turn(u, next_finished) \in Nat
         /\ returned \subseteq Nat /\ 0 \notin made
    <2>1. Held \in Numbers /\ next_finished \in Threads /\ returned \subseteq Nat /\ 0 \notin made
      BY <1>1, Sizes DEF Made, Control, Types, Numbers
    <2>2. p[n].frame \in Nat
      BY <1>8, MarkFacts, Sizes
    <2>3. \A u \in Threads : Mark(u) \in Nat
      BY MarkFacts, Sizes
    <2>4. \A u \in Threads : Turn(u, next_finished) \in Nat
      BY <2>1, TurnFacts
    <2>5. Held \in Nat
      BY <2>1, Sizes
    <2> QED
      BY <2>1, <2>2, <2>3, <2>4, <2>5
  \* The other threads with a packet or a frame come after it.
  <1>12. \A u \in Threads \ {n} : ~Clean(u) =>
           Turn(n, next_finished) < Turn(u, next_finished)
    <2> SUFFICES ASSUME NEW u \in Threads \ {n}, ~Clean(u)
                 PROVE  Turn(n, next_finished) < Turn(u, next_finished)
      OBVIOUS
    <2>1. Turn(n, next_finished) <= Turn(u, next_finished)
      BY <1>1, <1>2 DEF Control, InTurn
    <2>2. Turn(n, next_finished) # Turn(u, next_finished)
      BY <1>11, TurnFacts
    <2> QED
      BY <1>11, <2>1, <2>2
  <1>13. PICK f \in Threads : f = next_finished'
    BY <1>4, <1>11
  <1>14. \A u, v \in Threads \ {n} : ~Clean(u) /\ ~Clean(v) =>
           (Turn(u, f) < Turn(v, f) <=> Turn(u, next_finished) < Turn(v, next_finished))
    <2> SUFFICES ASSUME NEW u \in Threads \ {n}, NEW v \in Threads \ {n}, ~Clean(u), ~Clean(v)
                 PROVE  Turn(u, f) < Turn(v, f)
                          <=> Turn(u, next_finished) < Turn(v, next_finished)
      OBVIOUS
    <2>1. CASE f = next_finished
      BY <2>1
    <2>2. CASE f = m
      <3>1. /\ Turn(u, f) = Turn(u, next_finished) - Turn(n, next_finished) - 1
            /\ Turn(v, f) = Turn(v, next_finished) - Turn(n, next_finished) - 1
        BY <1>3, <1>11, <1>12, <2>2, TurnShift
      <3> QED
        BY <1>11, <3>1
    <2> QED
      BY <1>4, <1>13, <2>1, <2>2
  <1>15. \A x, y : Turn(x, y)' = Turn(x, y)
    BY DEF Turn
  <1>16. Made'
    <2>1. returned' \subseteq made' \cap progress' /\ made' \subseteq taken'
      BY <1>1, <1>4 DEF Made
    <2>2. got' \in made' \cup {0} /\ Held' \in made' \cup {0}
      BY <1>1, <1>4, <1>7, <1>8, <1>10 DEF Made
    <2>3. mpc' # "lock" => got' = 0 /\ ~err'
      BY <1>4
    <2>4. ASSUME NEW u \in Threads
          PROVE  /\ ~BeforeSetup(u)' => Result(u)' \in made' \cup {0}
                 /\ ~kind.reorder => p'[u].ctx.held = 0
                 /\ Incomplete(u)' => p'[u].avpkt \in made'
      <3>1. CASE u = n
        BY <1>1, <1>4, <1>6, <1>8, <3>1 DEF Made
      <3>2. CASE u # n
        BY <1>1, <1>4, <1>5, <1>9, <3>2 DEF Made
      <3> QED
        BY <3>1, <3>2
    <2> QED
      BY <1>4, <2>1, <2>2, <2>3, <2>4 DEF Made
  <1>17. Line'
    BY <1>1, <1>4, <1>5, <1>6, <1>8, <1>9 DEF Line
  <1>18. Ordered'
    <2>1. \A u \in Threads : Mark(u)' # 0 => u # n /\ ~Clean(u) /\ Mark(u)' = Mark(u)
      BY <1>8, <1>9, MarkFacts
    <2>2. ASSUME NEW u \in Threads, NEW v \in Threads, Mark(u)' # 0, Mark(v)' # 0,
                 Turn(u, f) < Turn(v, f)
          PROVE  Mark(u)' < Mark(v)'
      BY <1>1, <1>14, <2>1, <2>2 DEF Ordered
    <2>3. ASSUME NEW u \in Threads, Mark(u)' # 0
          PROVE  /\ got' < Mark(u)'
                 /\ \A g \in returned : g < Mark(u)'
                 /\ Held # 0 => (IF BeforeSetup(u)' THEN Held < Mark(u)' ELSE Mark(u)' < Held)
      <3>1. /\ u # n /\ ~Clean(u) /\ Mark(u)' = Mark(u) /\ Mark(u) # 0
            /\ (BeforeSetup(u)' <=> BeforeSetup(u))
        BY <1>9, <2>1, <2>3
      <3>2. CASE p[n].frame = 0
        BY <1>1, <1>10, <3>1, <3>2 DEF Ordered
      <3>3. CASE p[n].frame # 0
        <4>1. Mark(n) < Mark(u)
          BY <1>1, <1>8, <1>12, <3>1, <3>3 DEF Ordered
        <4> QED
          BY <1>1, <1>8, <1>10, <3>1, <4>1 DEF Ordered
      <3> QED
        BY <3>2, <3>3
    <2>4. PICK g \in Nat : g = got'
      BY <1>10, <1>11
    <2>5. Held # 0 => g < Held /\ \A r \in returned : r < Held
      BY <1>1, <1>8, <1>10, <1>11, <2>4 DEF Ordered
    <2>6. g # 0 => \A r \in returned : r < g
      BY <1>1, <1>8, <1>10, <2>4 DEF Ordered
    <2> QED
      BY <1>4, <1>7, <1>13, <1>15, <2>2, <2>3, <2>4, <2>5, <2>6 DEF Ordered, Turn
  <1>19. \A r \in made' : Known(r)'
    <2> SUFFICES ASSUME NEW r \in made
                 PROVE  Known(r)'
      BY <1>4
    <2>1. Known(r) /\ r # 0
      BY <1>1, <1>11 DEF Kept
    <2>2. CASE r \in returned \cup {Held}
      BY <1>4, <1>7, <2>2 DEF Known
    <2>3. CASE r = p[n].frame
      BY <1>10, <2>3 DEF Known
    <2>4. CASE \E t \in Threads \ {n} : ~BeforeSetup(t) /\ Result(t) = r
      <3>1. PICK t \in Threads \ {n} : ~BeforeSetup(t) /\ Result(t) = r
        BY <2>4
      <3>2. ~BeforeSetup(t)' /\ Result(t)' = r
        BY <1>9, <3>1
      <3> QED
        BY <3>2 DEF Known
    <2> QED
      BY <1>1, <1>8, <2>1, <2>2, <2>3, <2>4 DEF Known
  \* The drain has been once round.
  <1>20. ASSUME mpc' = "lock", draining', got' = 0, ~err'
         PROVE  AllDone'
    <2>1. draining /\ avpkt = 0 /\ p[n].frame = 0 /\ ~p[n].failed /\ ~p[n].got_frame
      <3>1. draining /\ avpkt = 0
        BY <1>1, <1>4, <1>20 DEF Control, Call
      <3>2. p[n].frame = 0 /\ ~p[n].failed
        BY <1>4, <1>10, <1>20
      <3> QED
        BY <1>1, <1>8, <3>1, <3>2 DEF Line
    <2>2. After(n) = next_finished
      BY <1>3, <1>4, <1>20, <2>1
    <2>3. Turn(n, next_finished) = ThreadCount - 1
      BY <1>11, <2>2, TurnAfter
    <2>4. \A u \in Threads : Turn(u, next_finished) <= ThreadCount - 1
      BY <1>11, TurnFacts
    <2>5. ASSUME NEW u \in Threads \ {n}, ~Clean(u)
          PROVE  FALSE
      <3>1. Turn(n, next_finished) < Turn(u, next_finished)
        BY <1>12, <2>5
      <3>2. Turn(u, next_finished) \in Nat /\ Turn(u, next_finished) <= ThreadCount - 1
        BY <1>11, <2>4
      <3> QED
        BY <2>3, <3>1, <3>2, Sizes
    <2>6. \A u \in Threads : Clean(u)' /\ ~BeforeSetup(u) /\ Result(u) = 0
      BY <1>8, <1>9, <2>1, <2>5, MarkFacts
    <2>7. Held = 0
      <3>1. CASE ~kind.reorder
        BY <1>1, <1>7, <3>1 DEF Made, Held
      <3>2. CASE kind.reorder
        <4>1. Submits(avpkt)
          BY <3>2, KindFacts DEF Submits, Control, Types
        <4>2. Current \in Threads /\ p[Current].avpkt = 0
          BY <1>1, <2>1, <4>1, CurrentThread DEF Kept
        <4> QED
          BY <1>1, <2>6, <4>2, Sizes DEF Kept
      <3> QED
        BY <3>1, <3>2
    <2>8. made = returned
      BY <1>1, <1>11, <2>6, <2>7 DEF Kept, Known, Made
    <2> QED
      BY <1>4, <2>6, <2>8 DEF AllDone
  <1>21. Kept'
    <2>1. Current' # Main /\ ~BeforeSetup(Current)' /\ p'[Current'].avpkt = 0 => Held' = 0
      <3>1. Current \in Threads \cup {Main}
        BY <1>7 DEF Current, Control, Types
      <3>2. \A u \in Threads : p'[u].avpkt = p[u].avpkt /\ (BeforeSetup(u)' <=> BeforeSetup(u))
        BY <1>5, <1>6, <1>8, <1>9
      <3> QED
        BY <1>1, <1>7, <3>1, <3>2 DEF Kept
    <2>2. mpc' = "fetch" /\ Submits(avpkt)' => p'[Current'].avpkt = avpkt'
      <3>1. Submits(avpkt) => Current \in Threads /\ p[Current].avpkt = avpkt
        BY <1>1, CurrentThread DEF Kept
      <3>2. \A u \in Threads : p'[u].avpkt = p[u].avpkt
        BY <1>5, <1>6
      <3> QED
        BY <1>4, <1>7, <3>1, <3>2
    <2>3. ~draining_done'
      BY <1>1, <1>4 DEF Kept
    <2> QED
      BY <1>7, <1>19, <1>20, <2>1, <2>2, <2>3 DEF Kept
  <1>22. Complete'
    \* The thread that decodes the frame would be before this one, and it is not.
    <2>1. got' \in progress' \cup {0}
      <3> SUFFICES ASSUME p[n].frame # 0, p[n].frame \notin progress
                   PROVE  FALSE
        BY <1>4, <1>10
      <3>1. p[n].frame \in made
        BY <1>1, <1>8 DEF Made
      <3>2. PICK t \in Threads : Incomplete(t) /\ p[t].avpkt = p[n].frame
        BY <1>1, <3>1 DEF Complete
      <3>3. Turn(t, next_finished) <= Turn(n, next_finished)
        BY <1>1, <1>8, <3>2 DEF Complete
      <3>4. t # n /\ ~Clean(t)
        BY <1>8, <3>2, MarkFacts
      <3> QED
        BY <1>11, <1>12, <3>3, <3>4
    <2>2. \A r \in made' : r \in progress' \/ \E t \in Threads : Incomplete(t)' /\ p'[t].avpkt = r
      <3> SUFFICES ASSUME NEW r \in made, r \notin progress
                   PROVE  \E t \in Threads : Incomplete(t)' /\ p'[t].avpkt = r
        BY <1>4
      <3>1. PICK t \in Threads : Incomplete(t) /\ p[t].avpkt = r
        BY <1>1 DEF Complete
      <3> QED
        BY <1>5, <1>8, <1>9, <3>1
    <2>3. ASSUME NEW t \in Threads, NEW u \in Threads,
                 Incomplete(t)', ~BeforeSetup(u)', Result(u)' = p'[t].avpkt
          PROVE  Turn(t, f) <= Turn(u, f)
      <3>1. /\ t # n /\ Incomplete(t) /\ p'[t].avpkt = p[t].avpkt /\ p[t].avpkt \in made
        BY <1>1, <1>5, <1>8, <1>9, <2>3 DEF Made
      <3>2. u # n /\ ~BeforeSetup(u) /\ Result(u) = p[t].avpkt /\ Result(u) # 0
        BY <1>8, <1>9, <1>11, <2>3, <3>1
      <3>3. ~Clean(t) /\ ~Clean(u)
        BY <3>1, <3>2, MarkFacts
      <3>4. Turn(t, next_finished) <= Turn(u, next_finished)
        BY <1>1, <3>1, <3>2 DEF Complete
      <3>5. ~(Turn(u, f) < Turn(t, f))
        BY <1>11, <1>14, <3>1, <3>2, <3>3, <3>4
      <3> QED
        BY <3>5, TurnFacts
    <2> QED
      BY <1>13, <1>15, <2>1, <2>2, <2>3 DEF Complete, Turn
  <1> QED
    BY <1>16, <1>17, <1>18, <1>21, <1>22 DEF Frames

LEMMA CallerFrames ==
  ASSUME Control, Seen, Frames, Client \/ CallStep \/ SpuriousWakeup
  PROVE  Frames'
  <1>1. CASE mpc' \in Closing
    BY <1>1 DEF Frames, Live
  <1>2. CASE mpc' \notin Closing /\ Passive
    <2>1. mpc \notin Closing
      BY <1>2 DEF Closing, Client, SendPacket, Drain, Flush, Free, CallStep, Submit, AwaitSetup,
         UpdateContext, UpdateFails, AwaitRequest, ServeBuffer, ServeFormat, Served, Serving,
         Submitted, AwaitOutput, AwaitIdle, Idle, Kill, Join, Freed, SpuriousWakeup, Passive
    <2> QED
      BY <1>2, <2>1, CallerPassive
  <1>3. CASE Freeing
    BY <1>1, <1>3 DEF Freeing, Closing
  <1> QED
    BY <1>1, <1>2, <1>3, TransferFrames, FetchFrames, ReturnFrames, FlushedFrames DEF Passive

LEMMA InitFrames ==
  ASSUME Init
  PROVE  Frames
  <1>1. /\ \A u \in Threads : p[u].state = "INPUT_READY" /\ p[u].ctx = NewContext
        /\ \A u \in Threads : p[u].frame = 0 /\ ~p[u].got_frame /\ ~p[u].failed
        /\ \A u \in Threads : wpc[u] = "wait"
        /\ mpc = "user" /\ got = 0 /\ ~err /\ ~draining_done /\ made = {} /\ returned = {}
    BY DEF Init
  <1>2. \A u \in Threads : /\ ~BeforeSetup(u) /\ ~Decoding(u) /\ ~Incomplete(u)
                           /\ Result(u) = 0 /\ Mark(u) = 0
    BY <1>1 DEF BeforeSetup, Decoding, Incomplete, Result, Mark, FinishingSetup
  <1>3. ~Submitting /\ Current = Main /\ Front \in Threads
    BY <1>1, Sizes DEF Init, Submitting, Current, Front
  <1>4. Held = 0 /\ \A u \in Threads : p[u].ctx.held = 0
    BY <1>1, <1>3 DEF Held, NewContext
  <1>5. Made
    BY <1>1, <1>2, <1>4 DEF Made
  <1>6. Line /\ Ordered
    BY <1>1, <1>2, <1>4 DEF Line, Ordered
  <1>7. Kept
    BY <1>1, <1>3 DEF Kept
  <1>8. Complete
    BY <1>1, <1>2 DEF Complete
  <1> QED
    BY <1>5, <1>6, <1>7, <1>8 DEF Frames

LEMMA NextFrames ==
  ASSUME Control, Seen, Frames, [Next]_vars
  PROVE  Frames'
  <1>1. CASE Ended \/ UNCHANGED vars
    <2>1. UNCHANGED <<kind, mpc, avpkt, got, err, draining, draining_done, prev_thread,
                      next_decoding, next_finished, p, wpc, progress, taken, made, returned>>
      BY <1>1 DEF Ended, vars, call, client, fctx, frames, history
    <2>2. CASE mpc \in Closing
      BY <2>1, <2>2 DEF Frames, Live
    <2>3. CASE mpc \notin Closing
      <3>1. /\ \A u \in Threads : /\ (BeforeSetup(u)' <=> BeforeSetup(u))
                                  /\ (Decoding(u)' <=> Decoding(u))
                                  /\ (Incomplete(u)' <=> Incomplete(u))
                                  /\ Result(u)' = Result(u) /\ Mark(u)' = Mark(u)
                                  /\ (Clean(u)' <=> Clean(u))
            /\ (Live' <=> Live)
        BY <2>1 DEF BeforeSetup, Decoding, Incomplete, Result, Mark, Clean, Live
      <3>2. (Submitting' <=> Submitting) /\ (Submits(avpkt)' <=> Submits(avpkt))
        BY <2>1 DEF Submitting, Submits
      <3>3. Current' = Current /\ Front' = Front
        BY <2>1, <3>2 DEF Current, Front
      <3>4. Held' = Held
        BY <2>1, <3>3 DEF Held
      <3>5. Made'
        BY <2>1, <2>3, <3>1, <3>4 DEF Frames, Made
      <3>6. ASSUME Live
            PROVE  Line' /\ Ordered' /\ Kept' /\ Complete'
        <4>1. Line /\ Ordered /\ Kept /\ Complete
          BY <3>6 DEF Frames
        <4>2. Line'
          BY <2>1, <3>1, <4>1 DEF Line
        <4>3. Ordered'
          BY <2>1, <3>1, <3>4, <4>1 DEF Ordered, Turn
        <4>4. \A f \in made' : Known(f)'
          BY <2>1, <3>1, <3>4, <4>1 DEF Kept, Known
        <4>5. AllDone' <=> AllDone
          BY <2>1, <3>1 DEF AllDone
        <4>6. Current \in Threads \cup {Main}
          <5>1. Submitting => Current \in Threads
            BY CurrentThread
          <5> QED
            BY <5>1 DEF Current, Control, Types
        <4>7. Kept'
          BY <2>1, <3>1, <3>2, <3>3, <3>4, <4>1, <4>4, <4>5, <4>6 DEF Kept
        <4>8. Complete'
          BY <2>1, <3>1, <4>1 DEF Complete, Turn
        <4> QED
          BY <4>2, <4>3, <4>7, <4>8
      <3> QED
        BY <3>1, <3>5, <3>6 DEF Frames
    <2> QED
      BY <2>2, <2>3
  <1> QED
    BY <1>1, WorkerFrames, CallerFrames DEF Next

-----------------------------------------------------------------------------
(* What follows of the frames.                                             *)

\* The end is reported (pthread_frame.c:590) only when every picture that was decoded
\* was returned, also one that was held back or is of a thread that the drain skipped.
THEOREM NoFrameIsLost == Spec => []NoFrameLost
  <1>1. Init => Control /\ Seen /\ Frames
    BY InitControl, InitSeen, InitFrames
  <1>2. Control /\ Seen /\ Frames /\ [Next]_vars => (Control /\ Seen /\ Frames)'
    BY NextControl, NextSeen, NextFrames
  <1>3. Frames => NoFrameLost
    BY DEF Frames, Live, Closing, Kept, AllDone, NoFrameLost
  <1> QED
    BY <1>1, <1>2, <1>3, PTL DEF Spec

\* A frame is on its way to the caller only at the end of a call, also when closing.
Handing == got # 0 => mpc = "lock"

LEMMA NextHanding ==
  ASSUME Control, Seen, Frames, Handing, [Next]_vars
  PROVE  Handing'
  <1>1. CASE mpc' \notin Closing
    <2>1. Made'
      BY <1>1, NextFrames DEF Frames
    <2> QED
      BY <2>1 DEF Made, Handing
  <1>2. CASE mpc' \in Closing
    <2>1. CASE Client \/ CallStep \/ SpuriousWakeup
      <3>1. mpc \in Closing \cup {"park"} /\ got' = got
        BY <1>2, <2>1 DEF Closing, Client, SendPacket, Drain, Enter, Flush, Free, Park, CallStep,
           Submit, AwaitSetup, UpdateContext, UpdateFails, Transfer, AwaitRequest, ServeBuffer,
           ServeFormat, Served, Serving, Submitted, AwaitOutput, Fetch, Return, AwaitIdle, Idle,
           Flushed, Freeing, Kill, Join, Freed, SpuriousWakeup, call
      <3> QED
        BY <3>1 DEF Handing, Closing
    <2>2. ASSUME NEW t \in Threads, WorkerStep(t)
          PROVE  UNCHANGED <<mpc, got>>
      <3>1. CASE Die(t)
        BY <3>1 DEF Die, kept, call
      <3> QED
        BY <2>2, <3>1, WorkerSteps DEF Steps
    <2>3. CASE Ended \/ UNCHANGED vars
      BY <2>3 DEF Ended, vars, call, Handing
    <2> QED
      BY <2>1, <2>2, <2>3 DEF Next, Handing
  <1> QED
    BY <1>1, <1>2

LEMMA OnlyReturn ==
  ASSUME [Next]_vars, ~Return
  PROVE  returned' = returned
  <1>1. CASE SpuriousWakeup \/ Ended \/ UNCHANGED vars
    BY <1>1 DEF SpuriousWakeup, Ended, vars, history
  <1>2. CASE Client
    BY <1>2 DEF Client, SendPacket, Drain, Enter, Flush, Free, Park, history
  <1>3. CASE Submit \/ AwaitSetup \/ UpdateContext \/ UpdateFails \/ Transfer \/ AwaitRequest
    BY <1>3 DEF Submit, AwaitSetup, UpdateContext, UpdateFails, Transfer, AwaitRequest, history
  <1>4. CASE ServeBuffer \/ ServeFormat \/ Served \/ Submitted \/ AwaitOutput \/ Fetch
    BY <1>4 DEF ServeBuffer, ServeFormat, Served, Submitted, AwaitOutput, Fetch, history
  <1>5. CASE AwaitIdle \/ Idle \/ Flushed \/ Freeing \/ Kill \/ Join \/ Freed
    BY <1>5 DEF AwaitIdle, Idle, Flushed, Freeing, Kill, Join, Freed, history
  <1>6. ASSUME NEW t \in Threads, WorkerStep(t)
        PROVE  returned' = returned
    <2>1. CASE Start(t) \/ Die(t) \/ Decode(t) \/ GetFormat(t) \/ GetBuffer(t)
      BY <2>1 DEF Start, Die, Decode, GetFormat, GetBuffer, history
    <2>2. CASE AwaitReply(t) \/ FormatReply(t) \/ BufferReply(t) \/ UnlockBuffer(t) \/ Setup(t)
      BY <2>2 DEF AwaitReply, FormatReply, BufferReply, UnlockBuffer, Setup, history
    <2>3. CASE Await(t) \/ Report(t) \/ DecodeReturns(t) \/ Decoded(t) \/ AsyncUnlock(t)
      BY <2>3 DEF Await, Report, DecodeReturns, Decoded, AsyncUnlock, history
    <2>4. CASE Ready(t) \/ FinishSetup(t) \/ AsyncLock(t) \/ Stash(t) \/ SetupFinished(t)
      BY <2>4 DEF Ready, FinishSetup, AsyncLock, Stash, SetupFinished, history
    <2> QED
      BY <1>6, <2>1, <2>2, <2>3, <2>4 DEF WorkerStep
  <1> QED
    BY <1>1, <1>2, <1>3, <1>4, <1>5, <1>6 DEF Next, CallStep

\* The frames are returned in the order of their packets, none twice, and none before
\* the thread that decodes it has reported it complete (pthread_frame.c:566, :590).
THEOREM FramesAreInOrder == Spec => FramesInOrder
  <1> DEFINE Inv == Control /\ Seen /\ Frames /\ Handing
             InOrder == /\ \A f \in returned' \ returned : \A g \in returned : g < f
                        /\ got' # 0 => got' \in progress'
  <1>1. Init => Inv
    <2>1. Init => Handing
      BY DEF Init, Handing
    <2> QED
      BY <2>1, InitControl, InitSeen, InitFrames
  <1>2. Inv /\ [Next]_vars => Inv'
    BY NextControl, NextSeen, NextFrames, NextHanding
  <1>3. Inv /\ Inv' /\ [Next]_vars => [InOrder]_vars
    <2> SUFFICES ASSUME Inv, Inv', [Next]_vars
                 PROVE  InOrder
      OBVIOUS
    <2>1. got' # 0 => got' \in progress'
      BY DEF Handing, Frames, Live, Closing, Complete
    <2>2. CASE Return
      <3>1. returned' = returned \cup ({got} \ {0}) /\ Ordered
        BY <2>2 DEF Return, Frames, Live, Closing
      <3> QED
        BY <2>1, <3>1 DEF Ordered
    <2>3. CASE ~Return
      BY <2>1, <2>3, OnlyReturn
    <2> QED
      BY <2>2, <2>3
  <1> HIDE DEF Inv
  <1> QED
    BY <1>1, <1>2, <1>3, PTL DEF Spec, FramesInOrder
=============================================================================
