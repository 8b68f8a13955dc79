--------------------------- MODULE ContextWindow ----------------------------
(***************************************************************************)
(* How much of what a turn has retrieved reaches the models: the rendering *)
(* of a bundle under a limit (types.py:132-144), the reduction of a large  *)
(* one to notes (recursive_context.py), and the working set that is then   *)
(* rendered for the synthesis (loop.py:165).                               *)
(*                                                                         *)
(* A text is its length. A block is a hit with its label, so none is       *)
(* empty. The two renderings are one loop, taken a block at a time; a call *)
(* of the recursive-context harness is a step, since it awaits.            *)
(***************************************************************************)
EXTENDS Integers, Sequences

CONSTANTS
    Threshold,      \* GRND0_RLM_THRESHOLD_CHARS, 24000 and at least 8000
    Factor,         \* 8: thresholds of text the reduction looks at
    Chunk,          \* 8000: the text of one call
    Span,           \* 48000: the text of all the calls
    Window,         \* 12000: the evidence of a working set
    Sep,            \* 2: the blank line between blocks
    Bundles,        \* the bundles a search can answer: sequences of block lengths
    NoteSizes       \* the lengths of a note, 0 for a blank one

Size == Nat \ {0}

ASSUME ContextAssumption ==
    /\ Threshold \in Size /\ Factor \in Size /\ Factor * Threshold \in Size
    /\ Chunk \in Size /\ Span \in Size /\ Window \in Size
    /\ Sep \in Nat
    /\ Bundles \subseteq Seq(Size)
    /\ NoteSizes \subseteq Nat

VARIABLES
    pc,             \* "sizing", "reading", "window", "done" or "failed"
    hits,           \* what was retrieved
    blocks,         \* the hits of the bundle at hand: notes first, once there are any
    placed,         \* the lengths of the blocks of the rendering
    left,           \* what the limit leaves
    length,         \* the length of the rendering, separators included
    sized,          \* the length the reduction was decided on
    read,           \* how much of that text the calls have read
    notes           \* the lengths of the notes

vars == <<pc, hits, blocks, placed, left, length, sized, read, notes>>

MinOf(a, b) == IF a < b THEN a ELSE b

\* What the rendering at hand may hold.
RenderLimit == IF pc = "sizing" THEN Factor * Threshold ELSE Window

Rendering == pc \in {"sizing", "window"}

\* The loop goes on while there is a block and room for it.
MorePlaced == Len(placed) < Len(blocks) /\ left > 0

Init ==
    /\ pc = "sizing"
    /\ hits \in Bundles
    /\ blocks = hits
    /\ placed = <<>> /\ left = Factor * Threshold /\ length = 0
    /\ sized = 0 /\ read = 0 /\ notes = <<>>

-----------------------------------------------------------------------------
(* render.                                                                 *)

\* Mutant of PlacedLength: a block that does not fit is left out, not cut.
PlacedOrSkipped(size) == IF size <= left THEN size ELSE 0

PlacedLength(size) == MinOf(size, left)

\* The next block, cut to what is left.
Place ==
    /\ Rendering /\ MorePlaced
    /\ LET n == PlacedLength(blocks[Len(placed) + 1])
       IN  /\ placed' = Append(placed, n)
           /\ left' = left - n
           /\ length' = IF placed = <<>> THEN n ELSE length + Sep + n
    /\ UNCHANGED <<pc, hits, blocks, sized, read, notes>>

-----------------------------------------------------------------------------
(* condense_retrieval.                                                     *)

\* The rendering of a bundle for the working set begins.
OpenWindow(bundle) ==
    /\ pc' = "window"
    /\ blocks' = bundle
    /\ placed' = <<>> /\ left' = Window /\ length' = 0

Small ==
    /\ pc = "sizing" /\ ~MorePlaced
    /\ length <= Threshold
    /\ sized' = length
    /\ OpenWindow(blocks)
    /\ UNCHANGED <<hits, read, notes>>

Large ==
    /\ pc = "sizing" /\ ~MorePlaced
    /\ length > Threshold
    /\ sized' = length
    /\ pc' = "reading"
    /\ UNCHANGED <<hits, blocks, placed, left, length, read, notes>>

\* Mutant of MoreRead: only whole chunks are read.
MoreWholeChunks == read + Chunk <= MinOf(sized, Span)

MoreRead == read < MinOf(sized, Span)

\* The harness answers for the next chunk.
ReadChunk(note) ==
    /\ pc = "reading" /\ MoreRead
    /\ read' = MinOf(read + Chunk, sized)
    /\ notes' = IF note = 0 THEN notes ELSE Append(notes, note)
    /\ UNCHANGED <<pc, hits, blocks, placed, left, length, sized>>

\* One call that raises ends the turn: nothing catches it here.
ChunkFails ==
    /\ pc = "reading" /\ MoreRead
    /\ pc' = "failed"
    /\ UNCHANGED <<hits, blocks, placed, left, length, sized, read, notes>>

\* The notes go before the hits.
Condense ==
    /\ pc = "reading" /\ ~MoreRead
    /\ OpenWindow(notes \o blocks)
    /\ UNCHANGED <<hits, sized, read, notes>>

Answer ==
    /\ pc = "window" /\ ~MorePlaced
    /\ pc' = "done"
    /\ UNCHANGED <<hits, blocks, placed, left, length, sized, read, notes>>

Ended == pc \in {"done", "failed"} /\ UNCHANGED vars

Next ==
    \/ Place \/ Small \/ Large
    \/ (\E note \in NoteSizes : ReadChunk(note)) \/ ChunkFails \/ Condense
    \/ Answer \/ Ended

Spec == Init /\ [][Next]_vars

-----------------------------------------------------------------------------
(* Properties.                                                             *)

TypeOK ==
    /\ pc \in {"sizing", "reading", "window", "done", "failed"}
    /\ hits \in Bundles
    /\ blocks \in Seq(Size) /\ placed \in Seq(Size) /\ notes \in Seq(Size)
    /\ left \in Nat /\ length \in Nat /\ sized \in Nat /\ read \in Nat

(***************************************************************************)
(* A rendering is longer than its limit by its separators and nothing      *)
(* else: the loop counts the blocks it places and not the blank lines the  *)
(* join adds (types.py:134-144).                                           *)
(***************************************************************************)
RenderBounded ==
    Rendering /\ placed # <<>> => length <= RenderLimit + Sep * (Len(placed) - 1)

(***************************************************************************)
(* A rendering is what the limit allows of the bundle from its front: all  *)
(* its blocks but the last are whole, and nothing is cut or left out while *)
(* there is room (types.py:135-143).                                       *)
(***************************************************************************)
RenderIsPrefix ==
    Rendering =>
        /\ Len(placed) <= Len(blocks)
        /\ \A i \in 1 .. Len(placed) :
              \/ placed[i] = blocks[i]
              \/ i = Len(placed) /\ placed[i] < blocks[i] /\ left = 0

(***************************************************************************)
(* The calls of the reduction read the text to its end or to the span, the *)
(* last and shorter chunk included, and none of them reads past the end    *)
(* (recursive_context.py:24).                                              *)
(***************************************************************************)
ChunksReadAll ==
    /\ read <= sized
    /\ pc \in {"window", "done"} /\ sized > Threshold => read >= MinOf(sized, Span)

(***************************************************************************)
(* A turn that retrieved something has evidence in its working set and all *)
(* its hits before the verifier, whatever the notes turn out to be, none   *)
(* of them included (recursive_context.py:34-46, verification.py:29, 43).  *)
(***************************************************************************)
EvidenceReaches ==
    /\ pc \in {"window", "done"} => blocks = notes \o hits
    /\ pc = "done" /\ hits # <<>> => placed # <<>>

(***************************************************************************)
(* A rendering is the front of its bundle, and as long as its limit allows *)
(* up to its separators: nothing is cut early, late or in the middle       *)
(* (types.py:132-144).                                                     *)
(***************************************************************************)
RenderingIsSound == RenderBounded /\ RenderIsPrefix

(***************************************************************************)
(* No evidence is lost on its way to the model: a reduction reads all that *)
(* its span allows, and the hits stay behind whatever notes it makes       *)
(* (recursive_context.py:24-46, loop.py:165-176).                          *)
(***************************************************************************)
EvidenceIsRead == ChunksReadAll /\ EvidenceReaches
=============================================================================
