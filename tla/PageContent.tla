---------------------------- MODULE PageContent ----------------------------
(***************************************************************************)
(* The content of a page on its way from the model to the result: the      *)
(* parsers of the OCR services (ovisocr2/app/parser.py, paddleocr_vl/app/  *)
(* adapter.py), what the backend makes of their answer (sidecar/           *)
(* protocol.py, sidecar/materializer.py, the live text of                  *)
(* engine/sidecar.py), and the renaming of references, crops and layout    *)
(* blocks when a chunk is merged (pipeline/merge.py, pipeline/layout.py).  *)
(*                                                                         *)
(* A Markdown text is a sequence of tokens: a piece of text, the           *)
(* placeholder [[FIGURE:n]], a reference to a crop, or a box in the live   *)
(* text.  A bounding box is a class: two usable ones, one too small to     *)
(* crop, one outside the page; the caps on lengths are left out.           *)
(***************************************************************************)
EXTENDS Integers, Sequences, FiniteSets, SequencesExt

CONSTANTS Items,       \* sequence: bound on the blocks of each page
          ChunkEnds,   \* the last page of each chunk of a multi-page job
          MaxFigures,  \* MAX_FIGURES, MAX_FIGURES_PER_PAGE
          MaxBlocks    \* bound: blocks of an answer that is not ovisocr2's, and their numbers

Pages == Len(Items)

ASSUME PageContentAssumption ==
  /\ Items \in Seq(Nat) /\ ChunkEnds \subseteq 1..Pages /\ {MaxFigures, MaxBlocks} \subseteq Nat
  /\ Pages > 0 => Pages \in ChunkEnds

Text(id) == <<"text", id>>
Figure(n) == <<"figure", n>>
Ref(name) == <<"ref", name>>
Box(b) == <<"box", b>>

Usable == {"A", "B", "small"}   \* what _validate_bbox, _norm_bbox and _clamp_bbox let through
NoFigure == -1                  \* figure_index None, or a negative one
Block(type, box, order, figure) == [type |-> type, box |-> box, order |-> order, figure |-> figure]

\* The members of a set in an order given as a set of pairs; numbers in theirs.
Sorted(S, before) ==
  [k \in 1..Cardinality(S) |-> CHOOSE i \in S : Cardinality({j \in S : <<j, i>> \in before}) = k - 1]
Ascending(S) == Sorted(S, {e \in S \X S : e[1] < e[2]})
By(key, S) == {e \in S \X S : \/ key[e[1]] < key[e[2]]
                              \/ key[e[1]] = key[e[2]] /\ e[1] < e[2]}
Rank(i, S) == Cardinality({j \in S : j < i})

-----------------------------------------------------------------------------
\* The services.

\* ovisocr2: the tags of figures in the text, each box once, become placeholders in the
\* order of the text; all other tags go.
OvisPage(raw) ==
  LET first == {i \in DOMAIN raw : /\ raw[i] \in Usable
                                   /\ \A j \in 1..(i - 1) : raw[j] # raw[i]}
      kept == {i \in first : Rank(i, first) < MaxFigures}
      left == Ascending({i \in DOMAIN raw : raw[i] = "words"} \cup kept)
      figures == Ascending(kept)
  IN [markdown |-> [k \in DOMAIN left |-> IF left[k] \in kept THEN Figure(Rank(left[k], kept))
                                          ELSE Text(left[k])],
      blocks |-> [k \in DOMAIN figures |-> Block("image", raw[figures[k]], k - 1, k - 1)]]

\* paddleocr_vl: the blocks in reading order, block_order if there is one and the place in
\* the list if not; the page furniture is a block without a place in the text.
PaddlePage(list) ==
  LET key == [i \in DOMAIN list |-> IF list[i].order >= 0 THEN list[i].order ELSE i - 1]
      order == Sorted(DOMAIN list, By(key, DOMAIN list))
      at(p) == list[order[p]]
      figures == {p \in DOMAIN list : at(p).label = "image" /\ at(p).box \in Usable}
      kept == {p \in figures : Rank(p, figures) < MaxFigures}
      left == Ascending({p \in DOMAIN list : at(p).label = "text"} \cup kept)
      blocks == Ascending({p \in DOMAIN list : at(p).label # "image"} \cup kept)
      block(p) == IF p \in kept THEN Block("image", at(p).box, p - 1, Rank(p, kept))
                  ELSE Block("text", IF at(p).box \in Usable THEN at(p).box ELSE "none",
                             p - 1, NoFigure)
  IN [markdown |-> [k \in DOMAIN left |-> IF left[k] \in kept THEN Figure(Rank(left[k], kept))
                                          ELSE Text(order[left[k]])],
      blocks |-> [k \in DOMAIN blocks |-> block(blocks[k])]]

\* What the services answer for a page of at most n items.  The backend shares no code
\* with them: it takes every page that the schema admits.
RawItems == {"words", "A", "B", "small", "off", "other tag"}
ListItems == [label : {"text", "image", "furniture"}, box : {"A", "B", "small", "off"}, order : -1..(MaxBlocks - 1)]
AnyBlock == [type : {"image"}, box : {"A", "B", "small", "none"}, order : 0..(MaxBlocks - 1),
             figure : {NoFigure} \cup 0..(MaxBlocks - 1)]
SeqsUpTo(S, n) == UNION {[1..k -> S] : k \in 0..n}
Smaller(n) == IF n > MaxBlocks THEN MaxBlocks ELSE n
Answers(n) ==
  {OvisPage(raw) : raw \in SeqsUpTo(RawItems, n)}
  \cup {PaddlePage(list) : list \in SeqsUpTo(ListItems, Smaller(n))}
  \cup [markdown : SeqsUpTo({Text(1)} \cup {Figure(k) : k \in 0..(MaxBlocks - 1)}, Smaller(n)),
        blocks : SeqsUpTo(AnyBlock, Smaller(n))]

-----------------------------------------------------------------------------
\* The backend, for one page.

\* sanitize_page: blocks in their order (stable), images only with a usable box, at most
\* MaxFigures of them, a figure number only for the first that has it.
Sanitize(page) ==
  LET all == DOMAIN page.blocks
      order == Sorted(all, By([i \in all |-> page.blocks[i].order], all))
      at(p) == page.blocks[order[p]]
      images == {p \in all : at(p).type = "image" /\ at(p).box \in Usable}
      kept == {p \in images : Rank(p, images) < MaxFigures}
      taken(p) == \E q \in kept : q < p /\ at(q).figure = at(p).figure
      left == Ascending({p \in all : at(p).type # "image"} \cup kept)
      figure(p) == IF p \in kept /\ ~taken(p) THEN at(p).figure ELSE NoFigure
  IN [page EXCEPT !.blocks = [k \in DOMAIN left |-> [at(left[k]) EXCEPT !.figure = figure(left[k])]]]

Images(page) == {p \in DOMAIN page.blocks : page.blocks[p].type = "image"}
Apart(page) == \A p, q \in Images(page) : page.blocks[p].box = page.blocks[q].box => p = q

\* Every placeholder replaced by what is found for its number, or removed.
IsFigure(token) == token[1] = "figure"
Replace(markdown, found) ==
  LET left == Ascending({i \in DOMAIN markdown :
                           IsFigure(markdown[i]) => markdown[i][2] \in DOMAIN found})
      token(i) == IF IsFigure(markdown[i]) THEN found[markdown[i][2]] ELSE markdown[i]
  IN [k \in DOMAIN left |-> token(left[k])]
Numbers(markdown) == {markdown[i][2] : i \in {j \in DOMAIN markdown : IsFigure(markdown[j])}}

\* _live_stream_text
LiveText(page) ==
  LET first(n) == CHOOSE p \in Images(page) : page.blocks[p].figure = n
  IN Replace(page.markdown, [n \in {page.blocks[p].figure : p \in Images(page)} |->
                               Box(page.blocks[first(n)].box)])

\* The loop of add_page over the first n blocks, all of them unless the image of the page
\* cannot be read or a crop not be written: the blocks whose crop is saved.  A crop of less
\* than four pixels is not, and takes no number.
Saved(page, n) == {p \in Images(page) : p <= n /\ page.blocks[p].box # "small"}

\* The number of the crop in the name of its file: only saved crops are counted.
CropNumber_Counted(page, n, p) == Rank(p, Images(page))
CropNumber(page, n, p) == Rank(p, Saved(page, n))

\* The Markdown: references for placeholders, and the crops no placeholder names at the end,
\* the numbered ones first.
Name(page, local, n, p) == <<local, CropNumber(page, n, p)>>
Placed(page, local, n) ==
  LET first(f) == CHOOSE p \in Saved(page, n) : page.blocks[p].figure = f
  IN Replace(page.markdown, [f \in {page.blocks[p].figure : p \in Saved(page, n)} |->
                               Ref(Name(page, local, n, first(f)))])
Markdown_NoLeftovers(page, local, n) == Placed(page, local, n)
Markdown_ByNumber(page, local, n) ==
  LET saved == {CropNumber(page, n, p) : p \in Saved(page, n)}
      left == Ascending(saved \ Numbers(page.markdown))
  IN Replace(page.markdown, [f \in saved |-> Ref(<<local, f>>)])
     \o [i \in DOMAIN left |-> Ref(<<local, left[i]>>)]
Markdown(page, local, n) ==
  LET figure == [p \in Saved(page, n) |-> page.blocks[p].figure]
      unnamed == {p \in Saved(page, n) : figure[p] \notin Numbers(page.markdown) \cup {NoFigure}}
      leftovers == Sorted(unnamed, By(figure, unnamed))
      orphans == Ascending({p \in Saved(page, n) : figure[p] = NoFigure})
      refs(ps) == [i \in DOMAIN ps |-> Ref(Name(page, local, n, ps[i]))]
  IN Placed(page, local, n) \o refs(leftovers) \o refs(orphans)

\* The page of raw_pages.json: the blocks with a box, images only when their crop is saved.
RawPage(page, n) ==
  LET left == Ascending({p \in 1..n : /\ page.blocks[p].box # "none"
                                      /\ p \in Images(page) => p \in Saved(page, n)})
  IN [k \in DOMAIN left |-> [image |-> left[k] \in Images(page), box |-> page.blocks[left[k]].box]]

Crops(page, local, n) ==
  {[name |-> Name(page, local, n, p), box |-> page.blocks[p].box] : p \in Saved(page, n)}

-----------------------------------------------------------------------------
VARIABLES
  single,   \* a per_page job: chunks of one page, run_single
  next,     \* page
  chunk,    \* the directory of the chunk: Markdown, raw_pages and boxes.json, files
  live,     \* of each page: what the live view showed
  apart,    \* ghost: the pages whose images have different boxes
  result,   \* pages_md
  images,   \* files of images/: name and, for a whole one, the box it shows
  boxes,    \* images/boxes.json
  layout    \* of each page: the blocks of layout.json
contentVars == <<single, next, chunk, live, apart, result, images, boxes, layout>>

Ends == IF single THEN 1..Pages ELSE ChunkEnds
Start == Len(result)   \* pages before the chunk
EmptyChunk == [markdown |-> <<>>, raw |-> <<>>, boxes |-> {}, files |-> {}]

\* The iteration of _run_pages for one page: parse and sanitize it, show it, write its crops,
\* take its Markdown.  The crop at which the loop breaks off may be there in part.
RunPage(page, n, torn) ==
  LET local == IF single THEN 0 ELSE next - Start - 1
      broken == [name |-> <<local, Cardinality(Saved(page, n))>>, box |-> "torn"]
  IN /\ live' = Append(live, LiveText(page))
     /\ apart' = apart \cup (IF Apart(page) THEN {next} ELSE {})
     /\ chunk' = [markdown |-> Append(chunk.markdown, Markdown(page, local, n)),
                  raw |-> Append(chunk.raw, RawPage(page, n)),
                  boxes |-> chunk.boxes \cup Crops(page, local, n),
                  files |-> chunk.files \cup Crops(page, local, n)
                            \cup (IF torn THEN {broken} ELSE {})]
     /\ next' = next + 1
     /\ UNCHANGED <<single, result, images, boxes, layout>>

ParsePage ==
  /\ next <= Pages /\ (next - 1 \in Ends => chunk = EmptyChunk)
  /\ \E answer \in Answers(Items[next]) :
       LET page == Sanitize(answer)
           cropped(p) == p \in Images(page) /\ page.blocks[p].box # "small"
       IN \E n \in 0..Len(page.blocks) :
            \E torn \in {FALSE} \cup {n < Len(page.blocks) /\ cropped(n + 1)} :
               RunPage(page, n, torn)

\* _global_image_name
Global(start, name) == <<start + 1 + name[1], name[2]>>
Moved(start, f) == [f EXCEPT !.name = Global(start, @)]
Rewritten(start, md) ==
  [i \in DOMAIN md |-> IF md[i][1] = "ref" THEN Ref(Global(start, md[i][2])) ELSE md[i]]

\* parse_page_blocks on what add_page writes: the images of the page are numbered in its
\* order, and _ingest_layout makes the number the name of a file.
LayoutOf(raw, page) ==
  [p \in DOMAIN raw |->
     [image |-> raw[p].image, box |-> raw[p].box,
      name |-> <<page, Rank(p, {q \in DOMAIN raw : raw[q].image})>>]]

\* add_chunk: references, files and layout blocks get the numbers of their pages.
MergeContent ==
  /\ next - 1 \in Ends /\ chunk # EmptyChunk
  /\ result' = result \o [l \in DOMAIN chunk.markdown |-> Rewritten(Start, chunk.markdown[l])]
  /\ images' = images \cup {Moved(Start, f) : f \in chunk.files}
  /\ boxes' = boxes \cup {Moved(Start, f) : f \in chunk.boxes}
  /\ layout' = layout \o [l \in DOMAIN chunk.raw |-> LayoutOf(chunk.raw[l], Start + l)]
  /\ chunk' = EmptyChunk
  /\ UNCHANGED <<single, next, live, apart>>

ContentInit ==
  /\ single \in BOOLEAN /\ next = 1 /\ chunk = EmptyChunk
  /\ live = <<>> /\ result = <<>> /\ layout = <<>>
  /\ images = {} /\ boxes = {} /\ apart = {}

ContentNext == ParsePage \/ MergeContent
ContentSpec == ContentInit /\ [][ContentNext]_contentVars

-----------------------------------------------------------------------------
References(md) == {md[i][2] : i \in {j \in DOMAIN md : md[j][1] = "ref"}}
CropsOf(p) == {f \in images : f.name[1] = p /\ f.box # "torn"}

\* Every reference on a page of the result names a whole crop of that page, and every whole
\* crop is on its page: none is lost, taken for another or shown on another page, whatever
\* blocks were dropped and wherever the writing broke off.
RefsResolve ==
  \A p \in DOMAIN result : References(result[p]) = {f.name : f \in CropsOf(p)}

\* An image of the layout view is a file that shows the box where the view puts it, though
\* the view finds its name by counting and the crops get theirs as they are saved.
LayoutShowsItsCrop ==
  \A p \in DOMAIN layout : \A i \in DOMAIN layout[p] :
    layout[p][i].image =>
      [name |-> layout[p][i].name, box |-> layout[p][i].box] \in images \cap boxes

\* The result shows text and figures in the order of the live view, except figures whose
\* crop was not saved; what is added follows at the end.  (Said of pages whose images have
\* different boxes: boxes are what the two are compared by.)
BoxOf(name) == (CHOOSE f \in images : f.name = name /\ f.box # "torn").box
ShownAs(token) == IF token[1] = "ref" THEN Box(BoxOf(token[2])) ELSE token
LiveShowsTheResult ==
  \A p \in DOMAIN result \cap apart :
    LET saved == {Box(f.box) : f \in CropsOf(p)}
        left == Ascending({i \in DOMAIN live[p] : live[p][i][1] = "box" => live[p][i] \in saved})
    IN IsPrefix([k \in DOMAIN left |-> live[p][left[k]]],
                [i \in DOMAIN result[p] |-> ShownAs(result[p][i])])
=============================================================================
