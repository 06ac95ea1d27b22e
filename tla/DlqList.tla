------------------------------ MODULE DlqList -------------------------------
(***************************************************************************)
(* GET /v1/dlq (httpapi/dlq.go, kafka/inspect.go): the list of a brand's   *)
(* dead letters is read off the end of the one partition of the DLQ topic. *)
(* The read takes the offsets first and the letters after, one by one,     *)
(* while consumers append letters and the broker's retention drops old     *)
(* ones; the handler then keeps the letters of the brand.                  *)
(***************************************************************************)
EXTENDS Integers, Sequences, FiniteSets, SequencesExt

CONSTANTS
  Brands,
  EventIds,    (* a set of integers, for their order                        *)
  Skew,        (* how far the clocks of two consumers differ, in letters    *)
  MaxInspect,  (* letters read (maxInspect and the handler's 100)           *)
  DefaultN,    (* letters listed when the query has no good n (20)          *)
  Queries,     (* values of n in queries; 0 stands for none or a bad one    *)
  MaxLetters   (* bound on the letters written                              *)

ASSUME DlqListAssumption ==
  /\ EventIds \subseteq Int /\ Queries \subseteq Nat
  /\ {Skew, MaxLetters} \subseteq Nat
  /\ {MaxInspect, DefaultN} \subseteq Nat \ {0} /\ DefaultN <= MaxInspect

VARIABLES
  letters,  \* every dead letter ever written, by offset
  first,    \* the lowest offset retention has left
  lpc,      \* where the handler is
  request,  \* the brand and the n of its request
  last,     \* the end of the topic it was told
  want,     \* letters it wants
  pos,      \* the next offset it reads
  out,      \* offsets of the letters it has read
  answer,   \* offsets of the letters it lists
  trimmed   \* retention overtook its read

listVars == <<letters, first, lpc, request, last, want, pos, out, answer, trimmed>>

Letter == [brand : Brands, event : EventIds, failedAt : Int]
Offsets == 1..MaxLetters
Outcomes == {"listed", "timeout", "failed"}

ListTypeOK ==
  /\ letters \in Seq(Letter)
  /\ first \in 1..(MaxLetters + 1)
  /\ lpc \in {"offsets", "read"} \cup Outcomes
  /\ request \in [brand : Brands, n : Queries]
  /\ last \in Offsets \cup {0, MaxLetters + 1} /\ pos \in Offsets \cup {MaxLetters + 1}
  /\ want \in 0..MaxInspect
  /\ out \in Seq(Offsets) /\ Len(out) <= want
  /\ answer \in Seq(Offsets) /\ Len(answer) <= MaxInspect
  /\ trimmed \in BOOLEAN

ListInit ==
  /\ letters = <<>>
  /\ first = 1
  /\ lpc = "offsets"
  /\ request \in [brand : Brands, n : Queries]
  /\ last = 0
  /\ want = 0
  /\ pos = 1
  /\ out = <<>>
  /\ answer = <<>>
  /\ trimmed = FALSE

-----------------------------------------------------------------------------
\* PublishDLQ of some consumer, with the time its own clock shows.
PublishDLQ ==
  /\ Len(letters) < MaxLetters
  /\ \E b \in Brands, e \in EventIds, s \in 0..Skew :
       letters' = Append(letters, [brand |-> b, event |-> e,
                                   failedAt |-> Len(letters) - s])
  /\ UNCHANGED <<first, lpc, request, last, want, pos, out, answer, trimmed>>

\* The broker drops the oldest letter.
Retention ==
  /\ first <= Len(letters) /\ first' = first + 1
  /\ trimmed' = (trimmed \/ (lpc = "read" /\ pos < first'))
  /\ UNCHANGED <<letters, lpc, request, last, want, pos, out, answer>>

\* How many letters the read loop waits for: those from the start to the end.
Want(lo, hi) == IF hi - MaxInspect < lo THEN hi - lo ELSE MaxInspect

\* Mutant: the read starts one letter late.
StartLate(lo, hi) == hi - Want(lo, hi) + 1

Start(lo, hi) == hi - Want(lo, hi)

\* ReadOffsets and SetOffset; an empty topic is an empty list.
ReadOffsets ==
  /\ lpc = "offsets"
  /\ last' = Len(letters) + 1
  /\ IF last' <= first
       THEN lpc' = "listed" /\ UNCHANGED <<want, pos>>
       ELSE /\ lpc' = "read"
            /\ want' = Want(first, last')
            /\ pos' = Start(first, last')
  /\ UNCHANGED <<letters, first, request, out, answer, trimmed>>

\* A reader whose offset was dropped goes on at the first one left.
ReadAt == IF pos < first THEN first ELSE pos

ReadMessage ==
  /\ lpc = "read" /\ Len(out) < want
  /\ ReadAt <= Len(letters)
  /\ out' = Append(out, ReadAt)
  /\ pos' = ReadAt + 1
  /\ UNCHANGED <<letters, first, lpc, request, last, want, answer, trimmed>>

-----------------------------------------------------------------------------
\* ReadRecent's order: the latest failure first, then the event id, then as read.
Newer(i, j) ==
  \/ letters[i].failedAt > letters[j].failedAt
  \/ /\ letters[i].failedAt = letters[j].failedAt
     /\ \/ letters[i].event > letters[j].event
        \/ letters[i].event = letters[j].event /\ i < j

\* The handler's n.
ListSize(n) == IF n = 0 THEN DefaultN ELSE IF n > MaxInspect THEN MaxInspect ELSE n

FirstN(s, n) == SubSeq(s, 1, IF Len(s) < n THEN Len(s) ELSE n)

\* A set of offsets in an order that decides between any two of them.
Sorted(S, Before(_, _)) ==
  CHOOSE s \in SetToSeqs(S) : \A i, j \in DOMAIN s : i < j => Before(s[i], s[j])

\* Mutant: the letters are cut before the others' are taken out.
ListedCutFirst ==
  SelectSeq(FirstN(Sorted({out[i] : i \in DOMAIN out}, Newer), ListSize(request.n)),
            LAMBDA i : letters[i].brand = request.brand)

\* Sorted, only the brand's (which are sorted with the others or without), and no more
\* than n of them.
Listed ==
  FirstN(Sorted({i \in {out[k] : k \in DOMAIN out} : letters[i].brand = request.brand}, Newer),
         ListSize(request.n))

Answer ==
  /\ lpc = "read" /\ Len(out) = want
  /\ lpc' = "listed"
  /\ answer' = Listed
  /\ UNCHANGED <<letters, first, request, last, want, pos, out, trimmed>>

\* Mutant: the read has no deadline.
ReadForever == lpc = "read" /\ Len(out) < want /\ UNCHANGED listVars

\* The handler's eight seconds are over while the read waits for a letter: 502.
ReadTimesOut ==
  /\ lpc = "read" /\ Len(out) < want /\ ReadAt > Len(letters)
  /\ lpc' = "timeout"
  /\ UNCHANGED <<letters, first, request, last, want, pos, out, answer, trimmed>>

\* A Kafka call fails: 502.
ReadFails ==
  /\ lpc \in {"offsets", "read"} /\ lpc' = "failed"
  /\ UNCHANGED <<letters, first, request, last, want, pos, out, answer, trimmed>>

\* The client asks again, or another one does.
NextRequest ==
  /\ lpc \in Outcomes /\ lpc' = "offsets"
  /\ request' \in [brand : Brands, n : Queries]
  /\ last' = 0 /\ want' = 0 /\ pos' = 1 /\ out' = <<>> /\ answer' = <<>> /\ trimmed' = FALSE
  /\ UNCHANGED <<letters, first>>

ListNext ==
  \/ PublishDLQ \/ Retention
  \/ ReadOffsets \/ ReadMessage \/ Answer
  \/ ReadTimesOut \/ ReadFails \/ NextRequest

ListSpec == ListInit /\ [][ListNext]_listVars

HandlerSteps == ReadOffsets \/ ReadMessage \/ Answer \/ ReadTimesOut

\* A request that was made is worked on.
ListFairSpec == ListSpec /\ WF_listVars(HandlerSteps)

-----------------------------------------------------------------------------
\* The offsets of a brand among those from lo up to the end the request was told.
BrandLetters(b, lo) == {i \in lo..(last - 1) : letters[i].brand = b}

\* The n newest of a set of letters, or all if there are fewer.
IsNewest(list, n, set) ==
  LET listed == {list[i] : i \in DOMAIN list}
  IN  /\ listed \subseteq set /\ Cardinality(listed) = Len(list)
      /\ Len(list) = IF Cardinality(set) < n THEN Cardinality(set) ELSE n
      /\ \A i \in listed, j \in set \ listed : Newer(i, j)

\* The list is the newest letters of the brand among the last MaxInspect written before
\* the offsets were read, newest first, whatever is written meanwhile and however the
\* clocks differ (ReadRecent, handleListDLQ), unless retention overtook the read.
ListIsRecent ==
  (lpc = "listed" /\ ~trimmed /\ want > 0) =>
    /\ IsNewest(answer, ListSize(request.n), BrandLetters(request.brand, last - want))
    /\ \A i, j \in DOMAIN answer :
         i < j => letters[answer[j]].failedAt <= letters[answer[i]].failedAt

\* A list never holds up until its timeout on a topic nobody trims: the read loop waits
\* only for letters that are there (readPartitionRecent's want).
TimeoutMeansTrimmed == lpc = "timeout" => trimmed

\* A request is answered, with a list or an error.
RequestIsAnswered == lpc = "offsets" ~> lpc \in Outcomes
=============================================================================
