------------------------------ MODULE ModelBatch ------------------------------
(***************************************************************************)
(* The layouts of a batch of encoded model inputs (model_batch_layout.cpp): *)
(* ragged, where the rows of all samples follow one another and offsets     *)
(* tell them apart; and padded, where every sample has the same number of   *)
(* rows and a mask tells rows from padding.  The lists of a sample are laid *)
(* out alike; keys and presence masks share offsets and mask with the rows  *)
(* of the candidates.  Batches are made of any samples here and padded to   *)
(* any widths, and then one cell may change, before they are unpadded.      *)
(***************************************************************************)
EXTENDS Integers, SequencesExt

CONSTANTS
    ValidSample(_),  \* validate_encoded_model_input
    Frames,          \* bound: what samples are made of
    Made(_),         \* a frame with its encoded model input, if it has one
    Batched,         \* bound: the frames that go into batches
    Widths,          \* bound: the widths batches are padded to
    MaxSamples       \* bound: the samples of a batch

Lists == {"candidates", "zones", "entities", "relationships", "links", "events", "references",
          "table", "life", "ownMain", "ownExtra", "opponentMain", "opponentExtra"}
Stored == Lists \cup {"keys"}
Columns == Stored \cup {"presence"}

NoBatch == [ok |-> FALSE]
Batch(value) == [ok |-> TRUE, value |-> value]

(* The list whose offsets, width and mask a column has. *)
LaidOutAs(column) == IF column \in Lists THEN column ELSE "candidates"

(* candidate_presence: of a candidate's optional features, which are there. *)
OptionalFeatures == {"choice", "source", "target", "phase", "position", "index", "amount"}
Presence(c) == {f \in OptionalFeatures : c[f] # <<>>}
Presences(candidates) == [i \in DOMAIN candidates |-> Presence(candidates[i])]

(* make_header *)
Header(e) == [f \in DOMAIN e \ Stored |-> e[f]]

Rows(e, column) ==
    IF column = "presence" THEN Presences(e.candidates) ELSE e[column]

(* A sample has its lists, and as many keys as candidates. *)
IsSample(e) ==
    /\ e = [f \in DOMAIN e |-> e[f]] /\ Stored \subseteq DOMAIN e
    /\ \A column \in Stored : e[column] \in Seq(Range(e[column]))
    /\ Len(e.keys) = Len(e.candidates)

ASSUME SamplesAssumption ==
    \A f \in Frames :
        /\ Made(f).frame = f
        /\ f \in Batched => IsSample(Made(f).encoded.value)

(* A list may be padded to a width that is asked for.                       *)
ASSUME WidthsAssumption ==
    \A widths \in Widths, list \in Lists : widths[list] # <<>> => widths[list][1] \in Nat

----------------------------------------------------------------------------
(* append_offset, after every sample *)
Offsets(counts) ==
    LET after[i \in 0..Len(counts)] == IF i = 0 THEN 0 ELSE after[i - 1] + counts[i]
    IN  [i \in 1..(Len(counts) + 1) |-> after[i - 1]]

(* Of every column, the rows of every sample, one after the other. *)
Laid(headers, rows) ==
    [headers |-> headers,
     offsets |-> [list \in Lists |->
                     Offsets([i \in DOMAIN headers |-> Len(rows[list][i])])],
     flat |-> [column \in Columns |-> FlattenSeq(rows[column])]]

(* make_ragged_model_batch_v1, of samples that are valid                    *)
SampleRows(samples) ==
    [column \in Columns |-> [i \in DOMAIN samples |-> Rows(samples[i], column)]]
Headers(samples) == [i \in DOMAIN samples |-> Header(samples[i])]
Ragged(samples) == Laid(Headers(samples), SampleRows(samples))

Size(r) == Len(r.headers)

(* Of a column, the rows of a sample: from its offset to the next. *)
Slice(r, column, i) ==
    LET offsets == r.offsets[LaidOutAs(column)]
    IN  SubSeq(r.flat[column], offsets[i] + 1, offsets[i + 1])

(* reconstruct_unchecked *)
Reconstructed(r, i) ==
    [f \in DOMAIN r.headers[i] \cup Stored |->
        IF f \in Stored THEN Slice(r, f, i) ELSE r.headers[i][f]]

(* validate_ragged *)
ValidOffsets(r, list) ==
    LET offsets == r.offsets[list]
    IN  /\ Len(offsets) = Size(r) + 1 /\ offsets[1] = 0
        /\ offsets[Len(offsets)] = Len(r.flat[list])
        /\ \A i \in 2..Len(offsets) : offsets[i - 1] <= offsets[i]

ValidRagged(r) ==
    /\ Size(r) > 0 /\ \A list \in Lists : ValidOffsets(r, list)
    /\ Len(r.flat.keys) = Len(r.flat.candidates)
    /\ r.flat.presence = Presences(r.flat.candidates)
    /\ \A i \in 1..Size(r) : \A e \in {Reconstructed(r, i)} : ValidSample(e)

----------------------------------------------------------------------------
(* What a row of padding holds: zero, or nothing. *)
Padding(column) ==
    CASE column = "candidates" ->
            [kind |-> 0, choice |-> <<>>, source |-> <<>>, target |-> <<>>, phase |-> <<>>,
             position |-> <<>>, index |-> <<>>, amount |-> <<>>, operation |-> 0, submits |-> FALSE]
      [] column = "presence" -> {}
      [] column \in {"keys", "table"} -> <<>>
      [] column = "zones" ->
            [player |-> 0, kind |-> 0, total |-> 0, public |-> 0, hidden |-> 0, order |-> FALSE]
      [] column = "entities" ->
            [at |-> 0, known |-> FALSE, id |-> 0, owner |-> <<>>, controller |-> <<>>, zone |-> 0,
             sequence |-> <<>>, overlay |-> <<>>, position |-> 0, up |-> FALSE,
             down |-> FALSE, printed |-> <<>>, current |-> <<>>]
      [] column = "relationships" ->
            [kind |-> 0, source |-> [at |-> 0, entity |-> <<>>],
             target |-> [at |-> 0, entity |-> <<>>]]
      [] column = "links" ->
            [index |-> 0, player |-> <<>>, source |-> <<>>, zone |-> <<>>, description |-> <<>>,
             targets |-> <<>>]
      [] column = "events" ->
            [index |-> 0, kind |-> 0, player |-> <<>>, entity |-> <<>>, code |-> <<>>,
             from |-> <<>>, to |-> <<>>, count |-> <<>>, amount |-> <<>>, counter |-> <<>>,
             phase |-> <<>>, winner |-> <<>>, reason |-> <<>>, description |-> <<>>,
             targets |-> <<>>]
      [] OTHER -> 0

Length(r, list, i) == r.offsets[list][i + 1] - r.offsets[list][i]
Longest(r, list) == Max({0} \cup {Length(r, list, i) : i \in 1..Size(r)})

(* choose_width: what is asked for, or what is needed. *)
Width(r, widths, list) == IF widths[list] = <<>> THEN Longest(r, list) ELSE widths[list][1]

(* fill_padded_collection: sample i has the columns from (i - 1) * width on. *)
SampleOf(cell, width) == ((cell - 1) \div width) + 1
RowOf(cell, width) == ((cell - 1) % width) + 1
CellOf(i, row, width) == (i - 1) * width + row

(* pad_model_batch_v1; a batch asks for no less than its longest sample.    *)
Padded(r, widths) ==
    LET width(list) == Width(r, widths, list)
        there(list, cell) ==
            RowOf(cell, width(list)) <= Length(r, list, SampleOf(cell, width(list)))
        value(column, list, cell) ==
            IF there(list, cell)
            THEN Slice(r, column, SampleOf(cell, width(list)))[RowOf(cell, width(list))]
            ELSE Padding(column)
    IN  IF ~ValidRagged(r) \/ \E list \in Lists : width(list) < Longest(r, list)
        THEN NoBatch
        ELSE Batch([headers |-> r.headers, widths |-> [list \in Lists |-> width(list)],
                    values |-> [column \in Columns |->
                        [cell \in 1..(Size(r) * width(LaidOutAs(column))) |->
                            value(column, LaidOutAs(column), cell)]],
                    masks |-> [list \in Lists |-> [cell \in 1..(Size(r) * width(list)) |->
                        IF there(list, cell) THEN 1 ELSE 0]]])

----------------------------------------------------------------------------
(* collect_padded_collection: rows first, and nothing in what is padding.   *)
RowsFirst(p, list) ==
    \A cell \in DOMAIN p.masks[list] :
        /\ p.masks[list][cell] <= 1
        /\ p.masks[list][cell] = 1 /\ RowOf(cell, p.widths[list]) > 1 => p.masks[list][cell - 1] = 1

NothingElse(p, column) ==
    \A cell \in DOMAIN p.values[column] :
        p.masks[LaidOutAs(column)][cell] = 0 => p.values[column][cell] = Padding(column)

(* Mutant: padding is whatever the mask says. *)
CollectableWhateverIsPadding(p) == \A list \in Lists : RowsFirst(p, list)

Collectable(p) ==
    /\ \A list \in Lists : RowsFirst(p, list)
    /\ \A column \in Columns : NothingElse(p, column)

(* validate_padded_sizes *)
RightSizes(p) ==
    /\ \A column \in Columns :
          Len(p.values[column]) = Len(p.headers) * p.widths[LaidOutAs(column)]
    /\ \A list \in Lists : Len(p.masks[list]) = Len(p.headers) * p.widths[list]

(* The rows of a sample are the first ones, as many as its mask has.        *)
Kept(p, list, i) ==
    Cardinality({row \in 1..p.widths[list] :
                    p.masks[list][CellOf(i, row, p.widths[list])] = 1})
KeptRows(p) ==
    [column \in Columns |-> [i \in DOMAIN p.headers |->
        [row \in 1..Kept(p, LaidOutAs(column), i) |->
            p.values[column][CellOf(i, row, p.widths[LaidOutAs(column)])]]]]
Collected(p) == Laid(p.headers, KeptRows(p))

(* unpad_model_batch_v1 *)
Unpadded(p) ==
    IF p.headers # <<>> /\ RightSizes(p) /\ Collectable(p) /\ ValidRagged(Collected(p))
    THEN Batch(Collected(p)) ELSE NoBatch

----------------------------------------------------------------------------
VARIABLES taken,   \* the frames of the batch, with their samples
          padded,  \* the batch as it is padded, once it is
          changed  \* after it was padded

batchVars == <<taken, padded, changed>>

Samples == [i \in DOMAIN taken |-> taken[i].encoded.value]

BatchInit == taken = <<>> /\ padded = <<>> /\ changed = FALSE

Take(f) ==
    /\ padded = <<>>
    /\ taken # <<>> => Len(taken) < MaxSamples /\ taken[1].frame \in Batched
    /\ taken' = Append(taken, Made(f)) /\ UNCHANGED <<padded, changed>>

Pad(widths) ==
    /\ padded = <<>> /\ taken # <<>> /\ \A i \in DOMAIN taken : taken[i].frame \in Batched
    /\ LET made == Padded(Ragged(Samples), widths)
       IN  made.ok /\ padded' = <<made.value>>
    /\ UNCHANGED <<taken, changed>>

(* One cell of a column, or of a mask. *)
ChangeValue(column, cell) ==
    /\ \E value \in Range(padded[1].values[column]) \cup {Padding(column)} :
          /\ value # padded[1].values[column][cell]
          /\ padded' = <<[padded[1] EXCEPT !.values[column][cell] = value]>>
    /\ changed' = TRUE /\ UNCHANGED taken

ChangeMask(list, cell) ==
    /\ \E bit \in 0..2 \ {padded[1].masks[list][cell]} :
          padded' = <<[padded[1] EXCEPT !.masks[list][cell] = bit]>>
    /\ changed' = TRUE /\ UNCHANGED taken

Change ==
    /\ padded # <<>> /\ ~changed
    /\ \/ \E column \in Columns : \E cell \in DOMAIN padded[1].values[column] :
             ChangeValue(column, cell)
       \/ \E list \in Lists : \E cell \in DOMAIN padded[1].masks[list] : ChangeMask(list, cell)

BatchNext == (\E f \in Frames : Take(f)) \/ (\E widths \in Widths : Pad(widths)) \/ Change

BatchSpec == BatchInit /\ [][BatchNext]_batchVars

----------------------------------------------------------------------------
(* What comes out of a padded batch is what went in, sample by sample.  If  *)
(* a cell was changed it is refused, or it is another batch, whose padding  *)
(* to the same widths is exactly what was unpadded: no cell is passed over. *)
UnpaddingIsExact ==
    padded # <<>> =>
        LET p == padded[1]
            r == Unpadded(p)
        IN  /\ ~changed => /\ r = Batch(Ragged(Samples))
                           /\ Samples = [i \in DOMAIN taken |-> Reconstructed(r.value, i)]
            /\ r.ok => Padded(r.value, [list \in Lists |-> <<p.widths[list]>>]) = Batch(p)

============================================================================
