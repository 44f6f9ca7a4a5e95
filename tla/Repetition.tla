---------------------------- MODULE Repetition -----------------------------
(***************************************************************************)
(* SemanticRepetitionDetector (engine/repetition.py) as the streamer of    *)
(* the local engine feeds it (engine/unlimited.py): it stops a model that  *)
(* repeats itself or does not stop, in text that arrives in pieces cut     *)
(* anywhere.                                                               *)
(*                                                                         *)
(* The text is a sequence of symbols: the two halves of the <PAGE> marker, *)
(* a line break, and two words that are rows of a table but for their      *)
(* number.  Layout tags and the channel of counters are left out, and      *)
(* lines are shorter than the rolling buffer.                              *)
(***************************************************************************)
EXTENDS Naturals, Sequences, FiniteSets, FiniteSetsExt, SequencesExt

CONSTANTS Threshold,       \* SEMANTIC_REPEAT_THRESHOLD
          MaxPageChars, MaxPageTokens,
          MaxMarkers,      \* _max_markers of the expected pages
          CheckInterval, MaxUnit, MinRepeats, MinSpan,   \* the _ROLLING_ constants
          Block,           \* the tokens of one put
          MaxText          \* bound: symbols of the text

ASSUME RepetitionAssumption ==
  /\ Threshold \in Nat \ {0, 1} /\ MinRepeats \in Nat \ {0, 1}
  /\ {MaxPageChars, MaxPageTokens, MaxMarkers, CheckInterval, MaxUnit, Block} \subseteq Nat \ {0}
  /\ {MinSpan, MaxText} \subseteq Nat

Words == {"row", "item"}
Symbols == Words \cup {"<PA", "GE>", "\n"}
Marker == <<"<PA", "GE>">>

\* The pieces of text between the occurrences of a separator of n symbols.
Rank(at, e) == Cardinality({x \in at : x <= e})
Nth(at, i) == CHOOSE e \in at : Rank(at, e) = i
CutAt(text, at, n) ==
  LET last == Cardinality(at) + 1
  IN [i \in 1..last |-> SubSeq(text, IF i = 1 THEN 1 ELSE Nth(at, i - 1) + n,
                               IF i = last THEN Len(text) ELSE Nth(at, i) - 1)]
Pages(text) == CutAt(text, {i \in 1..(Len(text) - 1) : SubSeq(text, i, i + 1) = Marker}, 2)
Lines(text) == CutAt(text, {i \in DOMAIN text : text[i] = "\n"}, 1)

-----------------------------------------------------------------------------
VARIABLES
  d,      \* the detector: its fields
  text,   \* fed so far
  total,  \* tokens generated
  ended   \* the stream has ended
vars == <<d, text, total, ended>>

Trip(det, reason) == [det EXCEPT !.detected = TRUE, !.reason = reason]

\* _observe_line: an empty line is passed over, a row like the one before is counted, any
\* other line ends the run.
Observe_Strict(det, line) ==
  IF Len(line) # 1 \/ line[1] \notin Words THEN [det EXCEPT !.template = "none", !.repeats = 0]
  ELSE LET n == IF det.template = line[1] THEN det.repeats + 1 ELSE 1
           seen == [det EXCEPT !.template = line[1], !.repeats = n]
       IN IF n >= Threshold THEN Trip(seen, "line_repeat") ELSE seen
Observe(det, line) == IF line = <<>> THEN det ELSE Observe_Strict(det, line)

\* _exact_tandem: the unfinished line ends in enough repetitions of a unit of words.
Repetitions(line, u) ==
  Max({0} \cup {k \in 1..Len(line) :
                  /\ k * u <= Len(line)
                  /\ \A i \in (Len(line) - k * u + 1)..(Len(line) - u) : line[i] = line[i + u]})
Tandem(line) ==
  \E u \in 1..MaxUnit : LET k == Repetitions(line, u)
                        IN k >= MinRepeats /\ k * u >= MinSpan

\* _check_rolling, with force at the end of the stream only.
CheckRolling_Late(det, force) == IF Tandem(det.line) /\ force THEN Trip(det, "rolling_repeat") ELSE det
CheckRolling(det, force) ==
  IF det.detected \/ (~force /\ det.since < CheckInterval) THEN det
  ELSE IF Tandem(det.line) THEN Trip([det EXCEPT !.since = 0], "rolling_repeat")
  ELSE [det EXCEPT !.since = 0]

\* _consume: the lines that are complete, then the rolling check, then the limit.
ObserveLines(det, lines) ==
  LET seen[i \in 0..Len(lines)] ==
        IF i = 0 THEN det
        ELSE IF seen[i - 1].detected THEN seen[i - 1] ELSE Observe(seen[i - 1], lines[i])
  IN seen[Len(lines)]
Consume(det, content) ==
  IF content = <<>> \/ det.detected THEN det
  ELSE LET lines == Lines(det.line \o content)
           counted == [det EXCEPT !.chars = @ + Len(content), !.since = @ + Len(content),
                                  !.line = Last(lines)]
           observed == ObserveLines(counted, Front(lines))
           checked == IF observed.detected THEN observed ELSE CheckRolling(observed, FALSE)
       IN IF ~checked.detected /\ checked.chars > MaxPageChars
          THEN Trip(checked, "page_char_limit") ELSE checked

\* _finish_line: the last line counts, too.  It stays in the rolling buffer until the next
\* page, and nothing is appended to it before.
FinishLine(det) == IF det.detected THEN det ELSE Observe(det, det.line)

\* _start_page: the first marker declares the first page; a page too many ends the stream.
StartPage_Unlimited(det) ==
  [det EXCEPT !.page = IF det.sawMarker THEN @ + 1 ELSE @, !.sawMarker = TRUE, !.chars = 0,
              !.tokens = 0, !.line = <<>>, !.since = 0, !.template = "none", !.repeats = 0]
StartPage(det) ==
  LET page == IF det.sawMarker THEN det.page + 1 ELSE det.page
  IN IF page + 1 > MaxMarkers
     THEN Trip([det EXCEPT !.page = page, !.sawMarker = TRUE], "page_flood")
     ELSE StartPage_Unlimited(det)

\* feed: page by page; the first half of a marker at the end waits for the next delta.  The
\* page is started although its last line may have been one too many.
NextPage(det, content) ==
  IF det.detected THEN det
  ELSE LET page == StartPage(FinishLine(det)) IN Consume(page, content)
FeedPages(det, contents) ==
  LET fed[i \in 1..Len(contents)] ==
        IF i = 1 THEN Consume(det, contents[1]) ELSE NextPage(fed[i - 1], contents[i])
  IN fed[Len(contents)]
Held_Nothing(data) == 0
Held(data) == IF data # <<>> /\ Last(data) = "<PA" THEN 1 ELSE 0
Feed(det, delta) ==
  IF det.detected THEN det
  ELSE LET pages == Pages((IF det.held THEN <<"<PA">> ELSE <<>>) \o delta)
           rest == Last(pages)
           hold == Held(rest)
           contents == Append(Front(pages), SubSeq(rest, 1, Len(rest) - hold))
           fed == FeedPages([det EXCEPT !.held = FALSE], contents)
       IN IF fed.detected THEN fed ELSE [fed EXCEPT !.held = (hold = 1)]

FeedTokens(det, n) ==
  IF det.detected THEN det
  ELSE LET counted == [det EXCEPT !.tokens = @ + n]
       IN IF counted.tokens > MaxPageTokens THEN Trip(counted, "page_token_limit") ELSE counted

\* feed with stream_end: the held half and the last line count, too, and the check of what
\* is in the buffer is forced.
EndOfStream(det) ==
  LET last == FinishLine(Consume([det EXCEPT !.held = FALSE],
                                 IF det.held THEN <<"<PA">> ELSE <<>>))
  IN CheckRolling(last, TRUE)

-----------------------------------------------------------------------------
\* put: the text that is ready is fed, then the tokens are counted.  A detection stops the
\* generation.
Put ==
  /\ ~d.detected /\ ~ended
  /\ \E n \in 1..Block, k \in 0..Block :
       /\ Len(text) + k <= MaxText
       /\ \E delta \in [1..k -> Symbols] :
            LET fed == Feed(d, delta)
            IN /\ d' = FeedTokens(fed, n)
               /\ text' = text \o delta
       /\ total' = total + n
  /\ UNCHANGED ended

End == /\ ~d.detected /\ ~ended /\ ended' = TRUE
       /\ d' = EndOfStream(d)
       /\ UNCHANGED <<text, total>>

Init == /\ d = [detected |-> FALSE, reason |-> "none", page |-> 0, sawMarker |-> FALSE,
                chars |-> 0, tokens |-> 0, line |-> <<>>, held |-> FALSE,
                template |-> "none", repeats |-> 0, since |-> 0]
        /\ text = <<>> /\ total = 0 /\ ended = FALSE
Next == Put \/ End
Spec == Init /\ [][Next]_vars

-----------------------------------------------------------------------------
\* What the detector should find, said of the whole text: a page with too many symbols, more
\* pages than can be, or rows that repeat on one page with nothing but empty lines between.
\* Of an unfinished text the last line does not count, nor half a marker at its end.
RowsRepeat(lines) ==
  \E word \in Words, i, j \in DOMAIN lines :
    /\ \A k \in i..j : lines[k] \in {<<>>, <<word>>}
    /\ Cardinality({k \in i..j : lines[k] = <<word>>}) >= Threshold
PageIsExcessive(page, whole) ==
  \/ Len(page) > MaxPageChars
  \/ RowsRepeat(IF whole THEN Lines(page) ELSE Front(Lines(page)))
IsExcessive(pages, over) ==
  \/ Len(pages) - 1 > MaxMarkers
  \/ \E p \in DOMAIN pages : PageIsExcessive(pages[p], p < Len(pages) \/ over)
Excessive ==
  LET half == IF ended THEN 0 ELSE Held(text)
  IN IsExcessive(Pages(SubSeq(text, 1, Len(text) - half)), ended)

\* The detector finds exactly that, however the text was cut into deltas: across a marker
\* that is split, a line that is split, and pages that end within one delta.  (The token
\* limit and the rolling check do depend on the deltas.)
CutsDoNotMatter ==
  d.reason \notin {"page_token_limit", "rolling_repeat"} => (d.detected <=> Excessive)

\* A line that goes on repeating itself is cut off soon after it has become too long,
\* without waiting for its end.
LoopsAreCaught ==
  ~d.detected =>
    \A u \in 1..MaxUnit :
      LET k == Repetitions(d.line, u)
      IN k * u < Max({MinRepeats * u, MinSpan}) + CheckInterval - 1 + u

\* Whatever the model writes, it is stopped: the tokens of all pages are bounded although
\* every marker starts a new budget.  (Two budgets have the number of the first page.)
GenerationIsBounded == total <= (MaxMarkers + 1) * MaxPageTokens + Block
=============================================================================
