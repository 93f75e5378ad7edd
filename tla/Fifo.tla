-------------------------------- MODULE Fifo --------------------------------
(***************************************************************************)
(* libavutil/fifo.c: AVFifoBuffer, the ring buffer under the thread        *)
(* message queues and the two Thinkforce codec wrappers.                   *)
(*                                                                         *)
(* A ring is a record: the slots, their number "end", the read and write   *)
(* positions and the read and write indices, which are uint32_t and        *)
(* overflow by design (fifo.c:157).  One unit of the ring stands for one   *)
(* element of the client: every client allocates a multiple of its element *)
(* size and transfers whole elements, so no element straddles the end.     *)
(*                                                                         *)
(* av_fifo_generic_write does not look at the free space: writing to a     *)
(* full ring overwrites the oldest slot while the size keeps growing.      *)
(* That is kept here; whether it can happen is up to each client.          *)
(***************************************************************************)
EXTENDS Integers, Sequences

CONSTANTS IdxMod,   \* the indices are modulo this, 2^32 in the code
          NoElem    \* contents of a slot that was never written

ASSUME IdxModAssumption == IdxMod \in Nat \ {0}

\* Off by one: the position just past the last slot is kept.
Wrap_OffByOne(p, n) == IF p > n THEN p - n ELSE p

\* `if (ptr >= f->end) ptr -= f->end - f->buffer`
Wrap(p, n) == IF p >= n THEN p - n ELSE p

av_fifo_alloc(n) ==
  [buffer |-> [i \in 0 .. n - 1 |-> NoElem], end |-> n,
   rptr |-> 0, wptr |-> 0, rndx |-> 0, wndx |-> 0]

\* The slots keep what they held: only the positions and the indices move.
av_fifo_reset(f) ==
  [f EXCEPT !.rptr = 0, !.wptr = 0, !.rndx = 0, !.wndx = 0]

\* (uint32_t)(f->wndx - f->rndx)
av_fifo_size(f) == IF f.wndx >= f.rndx THEN f.wndx - f.rndx
                                       ELSE f.wndx - f.rndx + IdxMod

av_fifo_space(f) == f.end - av_fifo_size(f)

\* av_fifo_generic_write of one element.
av_fifo_write(f, x) ==
  [f EXCEPT !.buffer = [f.buffer EXCEPT ![f.wptr] = x],
            !.wptr   = Wrap(f.wptr + 1, f.end),
            !.wndx   = Wrap(f.wndx + 1, IdxMod)]

\* The two halves of that write, for a ring that is read without a lock: the
\* slot, then the index by which the reader knows of it (fifo.c:139 asks for a
\* barrier between them).
av_fifo_copy(f, x) == [f EXCEPT !.buffer = [f.buffer EXCEPT ![f.wptr] = x]]
av_fifo_publish(f) == [f EXCEPT !.wptr = Wrap(f.wptr + 1, f.end),
                                !.wndx = Wrap(f.wndx + 1, IdxMod)]

\* The element `offset` places after the next one to be read.
av_fifo_peek_at(f, offset) == f.buffer[Wrap(f.rptr + offset, f.end)]

av_fifo_drain(f, n) ==
  [f EXCEPT !.rptr = Wrap(f.rptr + n, f.end),
            !.rndx = Wrap(f.rndx + n, IdxMod)]

\* av_fifo_generic_read of one element: the element, and the ring after it.
av_fifo_peek(f) == f.buffer[f.rptr]
av_fifo_read(f) == av_fifo_drain(f, 1)

(***************************************************************************)
(* What a ring holds, oldest element first, and the relation between       *)
(* positions and indices that makes the above meaningful.                  *)
(***************************************************************************)
Contents(f) == [i \in 1 .. av_fifo_size(f) |-> av_fifo_peek_at(f, i - 1)]

FifoType(Elem, cap) ==
  [buffer : [0 .. cap - 1 -> Elem \cup {NoElem}], end : {cap},
   rptr : 0 .. cap - 1, wptr : 0 .. cap - 1,
   rndx : 0 .. IdxMod - 1, wndx : 0 .. IdxMod - 1]

\* The write position is `size` slots after the read position and no slot is
\* held twice.
Coherent(f) ==
  /\ av_fifo_size(f) <= f.end
  /\ f.wptr = Wrap(f.rptr + av_fifo_size(f), f.end)
=============================================================================
