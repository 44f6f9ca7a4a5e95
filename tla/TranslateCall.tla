---------------------------- MODULE TranslateCall ----------------------------
(***************************************************************************)
(* One unit's way through the translation API and back into the document:  *)
(* OpenAICompatClient (translate/client.py), which the threads of the pool *)
(* share, with its retries, the doubled budget and the latch of the API    *)
(* mode; mask, sanitize and unmask around a call (masking.py); the repair  *)
(* and the translation in two halves; the cache of units; the assembly of  *)
(* result.md (segment.py).                                                 *)
(*                                                                         *)
(* A text is a sequence of lines with one item each: a word, a token that  *)
(* is not to be translated (a formula, or a tag of the document that looks *)
(* like a placeholder), the placeholder of one, a delimiter or a rule the  *)
(* model made up, a blank.  The API is external: what it answers is open,  *)
(* formulas and tags of its own included.  TranslatePool has the stop      *)
(* flags, the threads and the parts of a table, which are left out here.   *)
(***************************************************************************)
EXTENDS Naturals, FiniteSets, SequencesExt

CONSTANTS Sources,       \* the units' texts, one for each thread
          MathNames,     \* the placeholders m1, m2, ... of formulas, by their number
          TagNames,      \* ... and t1, t2, ... of tags
          Retries,       \* TranslateConfig.max_retries
          MaxLines       \* bound: lines of an answer

Units == DOMAIN Sources
Names == Range(MathNames) \cup Range(TagNames)
Formulas == {"fa", "fb", "fc"}
Display == {"fc"}   \* a formula between delimiters
Tokens == Formulas \cup Names
Plain == {"word", "blank", "rule", "delimiter", "dash", "damaged"}
Modes == {"responses", "chat"}

\* The places of the tokens of a text.
TokenPlaces(s) == {i \in DOMAIN s : s[i] \in Tokens}

\* What looks like a placeholder is a tag: no formula has the like in it.
ASSUME PlaceholdersAreTags ==
  /\ MathNames \in Seq(STRING) /\ TagNames \in Seq(STRING)
  /\ Names \cap (Formulas \cup Plain) = {}

\* The units of a document have words or tokens, which get a placeholder each.
ASSUME SourcesAreUnits ==
  /\ Sources \in Seq(Seq(Tokens \cup {"word", "blank"})) /\ Sources # <<>>
  /\ \A u \in Units : /\ \E i \in DOMAIN Sources[u] : Sources[u][i] # "blank"
                     /\ Cardinality(TokenPlaces(Sources[u])) <= Len(MathNames)
                     /\ Cardinality(TokenPlaces(Sources[u])) <= Len(TagNames)

VARIABLES
  apiMode,   \* TRANSLATE_API_MODE
  capped,    \* max_tokens is sent at all
  supports,  \* the modes the server has
  latched,   \* OpenAICompatClient._latched
  stage,     \* per unit: its place on the ladder ...
  call,      \* ... its call of complete ...
  left,      \* ... its first half, translated
  text,      \* ... and what came of it
  cache,     \* units.json
  document,  \* the lines of result.<lang>.md
  verdict,   \* how the run ended
  received,  \* ghost: answers with text in the current call of complete
  own        \* ghost: per unit, the formulas the model itself wrote in accepted answers

clientVars == <<apiMode, capped, supports>>
vars == <<clientVars, latched, stage, call, left, text, cache, document, verdict, received, own>>

Idle == [at |-> "idle", mode |-> "none", fallback |-> FALSE, attempt |-> 0,
         doubled |-> FALSE, partial |-> FALSE, truncated |-> FALSE, full |-> FALSE]

-----------------------------------------------------------------------------
\* Texts

Count(s, x) == Cardinality({i \in DOMAIN s : s[i] = x})

\* The lines of a text at some of its places.
Rank(places, i) == Cardinality({j \in places : j <= i})
LinesAt(s, places) ==
  [k \in 1..Cardinality(places) |-> s[CHOOSE i \in places : Rank(places, i) = k]]

\* The tokens of a text in the order of their placeholders.
Mapping(s) == LinesAt(s, TokenPlaces(s))

\* The k-th token's placeholder: the letter of its kind and its number.
Placeholder(token, k) == IF token \in Formulas THEN MathNames[k] ELSE TagNames[k]
Mask(s) == [i \in DOMAIN s |->
              IF s[i] \in Tokens THEN Placeholder(s[i], Rank(TokenPlaces(s), i)) ELSE s[i]]

\* The first characters of a token, which its placeholder shows the model;
\* fa and fb begin alike.
Preview(t) == IF t \in {"fa", "fb"} THEN "ab" ELSE t

\* cache_key: of the masked text, previews included.
Key(s) == <<Mask(s), [i \in DOMAIN Mapping(s) |-> Preview(Mapping(s)[i])]>>

\* sanitize_translation: a masked text has no delimiters, so those of an answer
\* are the model's, and so is a display formula, which loses its own.
Sanitize(s) ==
  LET kept == LinesAt(s, {i \in DOMAIN s : s[i] # "delimiter"})
  IN [k \in DOMAIN kept |-> IF kept[k] \in Display THEN "damaged" ELSE kept[k]]

\* unmask: one placeholder after the other gives way to its token, and what was
\* restored before is looked at again.
Put(s, name, token) == [i \in DOMAIN s |-> IF s[i] = name THEN token ELSE s[i]]
Unmasked(src, s) ==
  LET out[k \in 0..Len(Mapping(src))] ==
        IF k = 0 THEN s
        ELSE Put(out[k - 1], Placeholder(Mapping(src)[k], k), Mapping(src)[k])
  IN out
Restore(src, s) == Unmasked(src, s)[Len(Mapping(src))]

\* Mutant of Complete: a placeholder written twice passes.
Complete_Twice(src, s) ==
  LET out == Unmasked(src, s)
      restored == Restore(src, s)
  IN /\ \A k \in DOMAIN Mapping(src) : Count(out[k - 1], Placeholder(Mapping(src)[k], k)) >= 1
     /\ \A p \in Names : Count(restored, p) = 0
     /\ \E i \in DOMAIN restored : restored[i] # "blank"

\* What unmask must report for a text to be accepted: no placeholder missing or
\* there twice when its turn comes, none left; and the text is not empty.
Complete(src, s) ==
  LET out == Unmasked(src, s)
      restored == Restore(src, s)
  IN /\ \A k \in DOMAIN Mapping(src) : Count(out[k - 1], Placeholder(Mapping(src)[k], k)) = 1
     /\ \A p \in Names : Count(restored, p) = 0
     /\ \E i \in DOMAIN restored : restored[i] # "blank"

\* _run_pass and the look at what it returns.
Accepted(src, raw) == Complete(src, Sanitize(raw))
Translated(src, raw) == Restore(src, Sanitize(raw))

\* _split_two: two sentences, a token never cut.
Splittable(src) == Len(src) = 4
Halves(src) == <<SubSeq(src, 1, 2), SubSeq(src, 3, 4)>>
PartOf(u) == CASE stage[u] \in {"left", "leftRepair"} -> Halves(Sources[u])[1]
               [] stage[u] \in {"right", "rightRepair"} -> Halves(Sources[u])[2]
               [] OTHER -> Sources[u]

Answers == UNION {[1..n -> {"word", "rule", "blank", "delimiter"} \cup Tokens] : n \in 1..MaxLines}

-----------------------------------------------------------------------------
\* The client

Set(u, c) == call' = [call EXCEPT ![u] = c]
ClientFrame == UNCHANGED <<clientVars, stage, left, text, cache, document, verdict, own>>

\* Mutant of Pick: the mode is latched when the first call of it is made.
Pick_Latches(u) ==
  /\ call[u].at = "pick"
  /\ LET mode == IF apiMode # "auto" THEN apiMode
                 ELSE IF latched # "none" THEN latched ELSE "responses"
     IN /\ Set(u, [call[u] EXCEPT !.at = "send", !.mode = mode, !.attempt = 0,
                                  !.fallback = apiMode = "auto" /\ latched = "none"])
        /\ latched' = IF apiMode = "auto" THEN mode ELSE latched
  /\ UNCHANGED received /\ ClientFrame

\* _mode_for_call: until a mode is latched a call tries responses and may fall back.
Pick(u) ==
  /\ call[u].at = "pick"
  /\ Set(u, [call[u] EXCEPT
       !.at = "send", !.attempt = 0,
       !.mode = IF apiMode # "auto" THEN apiMode
                ELSE IF latched # "none" THEN latched ELSE "responses",
       !.fallback = apiMode = "auto" /\ latched = "none"])
  /\ UNCHANGED <<latched, received>> /\ ClientFrame

\* complete returns a text or raises.
Over(how) == [Idle EXCEPT !.at = how]

\* Mutant of Raised: an error of the doubled request is the call's error.
Raised_Always(c, why) == Over(why)

\* An error of a request: that of the doubled one is survived by the first text.
Raised(c, why) == Over(IF c.doubled /\ c.partial THEN "text" ELSE why)

Waits(c) == [c EXCEPT !.attempt = @ + 1]

\* One request: no connection or a transient status, an error that is not
\* transient, a mode the server does not have (a call that may fall back takes
\* any 404, 405 or 501 for that), or an answer, which may be cut off, and then
\* empty.
Send(u) ==
  LET c == call[u] IN
  /\ c.at = "send"
  /\ \/ /\ Set(u, IF c.attempt < Retries THEN Waits(c) ELSE Raised(c, "failed"))
        /\ UNCHANGED received
     \/ Set(u, Raised(c, "failed")) /\ UNCHANGED received
     \/ /\ c.mode \notin supports \/ c.fallback
        /\ Set(u, IF c.fallback THEN [c EXCEPT !.at = "fallback"] ELSE Raised(c, "unsupported"))
        /\ UNCHANGED received
     \/ /\ c.mode \in supports
        /\ \E truncated \in BOOLEAN, full \in BOOLEAN :
             /\ truncated \/ full
             /\ Set(u, [c EXCEPT !.at = "got", !.truncated = truncated, !.full = full])
             /\ received' = IF full THEN received \cup {u} ELSE received
  /\ UNCHANGED latched /\ ClientFrame

\* _NeedsFallback: the client stays with chat from now on, the request is sent
\* again with all its attempts.
FallBack(u) ==
  /\ call[u].at = "fallback"
  /\ latched' = "chat"
  /\ Set(u, [call[u] EXCEPT !.at = "send", !.mode = "chat", !.fallback = FALSE, !.attempt = 0])
  /\ UNCHANGED received /\ ClientFrame

\* What complete makes of an answer: one that is cut off is asked for again
\* with twice the budget, and the longer text is taken, then the first.
Judged(c) ==
  IF c.truncated /\ capped /\ ~c.doubled
  THEN [Idle EXCEPT !.at = "pick", !.doubled = TRUE, !.partial = c.full]
  ELSE Over(IF c.full \/ c.partial THEN "text" ELSE "failed")

\* The first answer in auto mode latches its mode.
Receive(u) ==
  /\ call[u].at = "got"
  /\ latched' = IF apiMode = "auto" /\ latched = "none" THEN call[u].mode ELSE latched
  /\ Set(u, Judged(call[u]))
  /\ UNCHANGED received /\ ClientFrame

ClientStep(u) == Pick(u) \/ Send(u) \/ FallBack(u) \/ Receive(u)

-----------------------------------------------------------------------------
\* translate_unit

UnitFrame == UNCHANGED <<clientVars, latched, cache, document, verdict>>
Outcomes == {"cached", "translated", "kept", "raised"}

Asks(u, to) == /\ stage' = [stage EXCEPT ![u] = to]
               /\ Set(u, [Idle EXCEPT !.at = "pick"])
               /\ received' = received \ {u}
               /\ UNCHANGED text
Ends(u, outcome, s) == /\ stage' = [stage EXCEPT ![u] = outcome]
                       /\ text' = [text EXCEPT ![u] = s]
                       /\ Set(u, Idle) /\ received' = received \ {u}

Begin(u) ==
  /\ stage[u] = "begin"
  /\ LET hits == {e \in cache : e.key = Key(Sources[u])} IN
       IF hits # {} THEN \E e \in hits : Ends(u, "cached", e.text) ELSE Asks(u, "first")
  /\ UNCHANGED <<left, own>> /\ UnitFrame

\* A translation that is complete ends the ladder, that of the first half leads
\* to the second.
Succeeds(u, s) ==
  \/ /\ stage[u] \in {"first", "repair"}
     /\ Ends(u, "translated", s) /\ UNCHANGED left
  \/ /\ stage[u] \in {"left", "leftRepair"}
     /\ left' = [left EXCEPT ![u] = s] /\ Asks(u, "right")
  \/ /\ stage[u] \in {"right", "rightRepair"}
     /\ Ends(u, "translated", left[u] \o s) /\ UNCHANGED left

\* The formulas in the answers that were accepted are the model's own.
Wrote(u, s) ==
  own' = [own EXCEPT ![u] = [t \in Formulas |->
            Count(s, t) + IF stage[u] \in {"right", "rightRepair"} THEN own[u][t] ELSE 0]]

\* After the repair: two halves, or the original.
Parts(u) == IF Splittable(Sources[u]) THEN Asks(u, "left") ELSE Ends(u, "kept", Sources[u])

\* A text that is not complete is repaired once.
Fails(u) ==
  /\ \/ stage[u] = "first" /\ Asks(u, "repair")
     \/ stage[u] = "repair" /\ Parts(u)
     \/ stage[u] = "left" /\ Asks(u, "leftRepair")
     \/ stage[u] = "right" /\ Asks(u, "rightRepair")
     \/ stage[u] \in {"leftRepair", "rightRepair"} /\ Ends(u, "kept", Sources[u])
  /\ UNCHANGED <<left, own>>

Judge(u) ==
  /\ call[u].at = "text" /\ stage[u] \notin Outcomes
  /\ \E raw \in Answers :
       IF Accepted(PartOf(u), raw)
       THEN Succeeds(u, Translated(PartOf(u), raw)) /\ Wrote(u, Sanitize(raw))
       ELSE Fails(u)
  /\ UnitFrame

\* An API error of the first pass is the run's, later ones count as failures of
\* their step; that of a half's first call ends the attempt in halves.
Errs(u) ==
  /\ call[u].at \in {"failed", "unsupported"} /\ stage[u] \notin Outcomes
  /\ \/ stage[u] = "first" /\ Ends(u, "raised", <<>>)
     \/ stage[u] = "repair" /\ Parts(u)
     \/ /\ stage[u] \in {"left", "leftRepair", "right", "rightRepair"}
        /\ Ends(u, "kept", Sources[u])
  /\ UNCHANGED <<left, own>> /\ UnitFrame

UnitStep(u) == Begin(u) \/ Judge(u) \/ Errs(u)

-----------------------------------------------------------------------------
\* The calling thread

MainFrame == UNCHANGED <<clientVars, latched, stage, call, left, text, received, own>>

\* A unit that was translated is put into the cache when it is collected.
Collect(u) ==
  /\ stage[u] = "translated" /\ verdict = "none"
  /\ [key |-> Key(Sources[u]), text |-> text[u]] \notin cache
  /\ cache' = {e \in cache : e.key # Key(Sources[u])} \cup {[key |-> Key(Sources[u]), text |-> text[u]]}
  /\ UNCHANGED <<document, verdict>> /\ MainFrame

Separator == <<"blank", "rule", "blank">>
Breaks(lines) == {i \in 2..(Len(lines) - 3) : SubSeq(lines, i, i + 2) = Separator}

\* Mutant of Clean: the translation is put in as it is.
Clean_KeepsRules(s) == s

\* _sanitize_unit: no rule, no blank lines around.
Trim(s) ==
  LET solid == {i \in DOMAIN s : s[i] # "blank"} IN
  IF solid = {} THEN <<>>
  ELSE SubSeq(s, CHOOSE i \in solid : \A j \in solid : i <= j, CHOOSE i \in solid : \A j \in solid : i >= j)
Clean(s) == Trim([i \in DOMAIN s |-> IF s[i] = "rule" THEN "dash" ELSE s[i]])

\* The first page has the units with a blank line between, the second page is
\* a formula, which nobody translates.
Page(texts) == FlattenSeq([i \in 1..(2 * Len(texts) - 1) |->
                  IF i % 2 = 1 THEN texts[(i + 1) \div 2] ELSE <<"blank">>])
Result(texts) == Page(texts) \o Separator \o <<"fc">>

\* assemble_markdown: units in their places, but none with a separator in it, and the
\* number of pages unchanged.
Placed(u) == IF Breaks(Clean(text[u])) # {} THEN Sources[u] ELSE Clean(text[u])

Assemble ==
  /\ verdict = "none" /\ \A u \in Units : stage[u] \in Outcomes
  /\ LET lines == Result([u \in Units |-> Placed(u)]) IN
     IF \E u \in Units : stage[u] = "raised" THEN verdict' = "raised" /\ UNCHANGED document
     ELSE IF Cardinality(Breaks(lines)) # 1 THEN verdict' = "mismatch" /\ UNCHANGED document
     ELSE verdict' = "done" /\ document' = lines
  /\ UNCHANGED cache /\ MainFrame

Init ==
  /\ apiMode \in Modes \cup {"auto"} /\ capped \in BOOLEAN /\ supports \in SUBSET Modes
  /\ latched = "none"
  /\ cache \in {{}} \cup {{[key |-> Key(Sources[u]), text |-> Sources[u]]} : u \in Units}
  /\ stage = [u \in Units |-> "begin"] /\ call = [u \in Units |-> Idle]
  /\ left = [u \in Units |-> <<>>] /\ text = [u \in Units |-> <<>>]
  /\ document = <<>> /\ verdict = "none" /\ received = {}
  /\ own = [u \in Units |-> [t \in Formulas |-> 0]]

Next == Assemble \/ \E u \in Units : ClientStep(u) \/ UnitStep(u) \/ Collect(u)

Spec == Init /\ [][Next]_vars

-----------------------------------------------------------------------------
\* A server that has only chat is found out, whoever asks it first and however
\* the first calls of several threads overlap: no call of a client in auto mode
\* ends with "not supported" (client.py:94-115).
FallbackReachesChat ==
  apiMode = "auto" /\ "chat" \in supports => \A u \in Units : call[u].at # "unsupported"

\* A call of complete that received a text in one of its requests does not end
\* with an error: neither a doubled request that fails nor an empty answer to it
\* loses the first text (client.py:70-92).
TextIsNotLost ==
  \A u \in Units : call[u].at \in {"failed", "unsupported"} => u \notin received

\* A translated unit has each of its formulas as often as before, next to those
\* the model wrote of its own accord: none lost, doubled or damaged, through
\* repair and halves, also when a tag stands in for a lost placeholder; and no
\* placeholder is left in it (masking.py:73-93, engine.py:244-362).
TokensSurvive ==
  \A u \in Units : stage[u] = "translated" =>
    /\ \A t \in Formulas : Count(text[u], t) = Count(Sources[u], t) + own[u][t]
    /\ \A p \in Names : Count(text[u], p) = 0

\* The last defence of assemble_markdown is never needed: whatever the model
\* writes, a unit does not break a page (segment.py:108-147).
PagesSurvive == verdict # "mismatch"

Keeps(u, tokens) == \A t \in tokens : Count(text[u], t) >= Count(Sources[u], t)

\* masking.py:3: tokens that must not be translated are invariant, in a unit
\* taken from the cache as well.
CachedTokensSurvive == \A u \in Units : stage[u] = "cached" => Keeps(u, Formulas)

\* masking.py:5: a token that is lost is reported, and the unit keeps its
\* original text; so one that is translated has all its tokens, tags as well.
LossIsNoticed == \A u \in Units : stage[u] = "translated" => Keeps(u, Tokens)
=============================================================================
