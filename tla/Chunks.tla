------------------------------- MODULE Chunks -------------------------------
(***************************************************************************)
(* How an answer becomes messages: chunk_text splits its text at the       *)
(* length limit of a message, by preference between lines, and plan puts   *)
(* the card on the first of the messages.  Of a character only whether it  *)
(* ends a line matters.                                                    *)
(***************************************************************************)
EXTENDS Integers, Sequences

CONSTANT Limit   \* the length limit of a message (2000)

ASSUME LimitAssumption == Limit \in Nat \ {0}

Newline == "newline"

Characters == {"letter", Newline}

(* str.splitlines(keepends=True): the places where lines end, and the line *)
(* that ends at one of them.                                               *)
LineEnds(text) == {i \in DOMAIN text : text[i] = Newline \/ i = Len(text)}

LineStart(text, n) ==
    CHOOSE i \in 1..n : /\ i = 1 \/ text[i - 1] = Newline
                        /\ \A j \in i..n - 1 : text[j] # Newline

LineTo(text, n) == SubSeq(text, LineStart(text, n), n)

(* What is collected becomes a chunk, unless it is empty. *)
Put(chunks, current) == IF current = <<>> THEN chunks ELSE Append(chunks, current)

(* How often the while loop cuts a whole chunk off a line. *)
Cuts(line) == IF line = <<>> THEN 0 ELSE (Len(line) - 1) \div Limit

WholeChunks(line) ==
    [i \in 1..Cuts(line) |-> SubSeq(line, (i - 1) * Limit + 1, i * Limit)]

Rest(line) == SubSeq(line, Cuts(line) * Limit + 1, Len(line))

(* Mutant: what precedes a long line is not put out before it. *)
ForgetfulAddLine(acc, line) ==
    IF Len(acc.current) + Len(Rest(line)) > Limit
    THEN [chunks |-> Append(acc.chunks \o WholeChunks(line), acc.current),
          current |-> Rest(line)]
    ELSE [chunks |-> acc.chunks \o WholeChunks(line), current |-> acc.current \o Rest(line)]

(* One line.  If it is too long, its whole chunks come after what was      *)
(* collected before it, and only its rest is collected; otherwise it joins *)
(* what is collected, if it fits.                                          *)
AddLine(acc, line) ==
    IF Cuts(line) > 0
    THEN [chunks |-> Put(acc.chunks, acc.current) \o WholeChunks(line),
          current |-> Rest(line)]
    ELSE IF Len(acc.current) + Len(line) > Limit
    THEN [chunks |-> Append(acc.chunks, acc.current), current |-> line]
    ELSE [chunks |-> acc.chunks, current |-> acc.current \o line]

NoLines == [chunks |-> <<>>, current |-> <<>>]

(* With the lines that end by the n-th character. *)
Collected(text) ==
    LET acc[n \in 0..Len(text)] ==
            IF n = 0 THEN NoLines
            ELSE IF n \in LineEnds(text) THEN AddLine(acc[n - 1], LineTo(text, n))
            ELSE acc[n - 1]
    IN  acc[Len(text)]

NonEmpty(chunks) ==
    LET kept[n \in 0..Len(chunks)] ==
            IF n = 0 THEN <<>> ELSE Put(kept[n - 1], chunks[n])
    IN  kept[Len(chunks)]

ChunkText(text) ==
    IF Len(text) <= Limit THEN Put(<<>>, text)
    ELSE NonEmpty(Put(Collected(text).chunks, Collected(text).current))

(* Mutant: the card is on every message. *)
CardOnAll(text, card) ==
    LET chunks == ChunkText(text)
    IN  IF chunks = <<>> /\ card THEN << [text |-> <<>>, card |-> TRUE] >>
        ELSE [i \in DOMAIN chunks |-> [text |-> chunks[i], card |-> card]]

(* The messages of a result: a card is on the first, or alone. *)
Plan(text, card) ==
    LET chunks == ChunkText(text)
    IN  IF chunks = <<>> /\ card THEN << [text |-> <<>>, card |-> TRUE] >>
        ELSE [i \in DOMAIN chunks |-> [text |-> chunks[i], card |-> card /\ i = 1]]

---------------------------------------------------------------------------
(* What chunk_text promises *)

(* How much of the text the first chunks are. *)
Reach(chunks) ==
    LET end[k \in 0..Len(chunks)] == IF k = 0 THEN 0 ELSE end[k - 1] + Len(chunks[k])
    IN  end

(* Two chunks part in the middle of a line only if that line does not fit  *)
(* into a message.                                                         *)
PartsWell(text, end) ==
    \/ text[end] = Newline
    \/ \E i \in 1..end, j \in end + 1..Len(text) :
          j - i >= Limit /\ \A l \in i..j - 1 : text[l] # Newline

(* The chunks are the text, cut into pieces that fit into a message (the   *)
(* docstring of text.py:9-14).                                             *)
AreChunksOf(text, chunks) ==
    LET end == Reach(chunks)
    IN  /\ end[Len(chunks)] = Len(text)
        /\ \A k \in DOMAIN chunks :
              /\ chunks[k] = SubSeq(text, end[k - 1] + 1, end[k])
              /\ Len(chunks[k]) \in 1..Limit
              /\ end[k] < Len(text) => PartsWell(text, end[k])
=============================================================================
