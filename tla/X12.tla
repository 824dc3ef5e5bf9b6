--------------------------------- MODULE X12 ---------------------------------
(***************************************************************************)
(* x12-generator.ts and x12-parser.ts.  A string is a sequence of          *)
(* characters or words, an element is a string, a segment a sequence of    *)
(* elements.  Dates, times and other elements that are the same in every   *)
(* document are the word "fixed".  A "space" is any character that trim()  *)
(* takes away, the newline too.                                            *)
(***************************************************************************)
EXTENDS Integers, Sequences, SequencesExt

CONSTANT Docs  \* the data of the documents that are generated

VARIABLES
  doc,    \* the data of a document
  sent,   \* its segments
  parsed  \* the segments that parseX12 made of their text

vars == <<doc, sent, parsed>>

Decimal(n) == <<ToString(n)>>

(* FoldLeft, as a recursion along the sequence. *)
Fold(Op(_, _), base, seq) ==
  LET upTo[n \in 0 .. Len(seq)] == IF n = 0 THEN base ELSE Op(upTo[n - 1], seq[n])
  IN  upTo[Len(seq)]

Flatten(seqs) == Fold(LAMBDA s, t : s \o t, <<>>, seqs)

Total(numbers) == Fold(LAMBDA m, n : m + n, 0, numbers)

FlatMap(Op(_), seq) == Flatten([i \in DOMAIN seq |-> Op(seq[i])])

Sum(Op(_), seq) == Total([i \in DOMAIN seq |-> Op(seq[i])])

Select(Test(_), seq) == FlatMap(LAMBDA x : IF Test(x) THEN <<x>> ELSE <<>>, seq)

-----------------------------------------------------------------------------
(* Bug: the width of the elements before them. *)
PadTen(val, len) == [i \in 1 .. 10 |-> IF i <= Len(val) THEN val[i] ELSE "space"]

Pad(val, len) == [i \in 1 .. len |-> IF i <= Len(val) THEN val[i] ELSE "space"]

(* A number that is too long keeps its first digits. *)
PadNum(val, len) ==
  LET zeros == IF Len(val) < len THEN len - Len(val) ELSE 0
  IN  [i \in 1 .. len |-> IF i <= zeros THEN "0" ELSE val[i - zeros]]

FunctionalCode == [t \in {"850", "855", "856", "810"} |->
  CASE t = "855" -> "PR" [] t = "856" -> "SH" [] t = "810" -> "IN" [] OTHER -> "PO"]

Envelope(d, body, segCount) ==
  << <<<<"ISA">>, <<"00">>, Pad(<<>>, 10), <<"00">>, Pad(<<>>, 10),
       <<"ZZ">>, Pad(d.sender, 15), <<"ZZ">>, Pad(d.receiver, 15), <<"fixed">>, <<"fixed">>, <<"U">>, <<"00401">>, PadNum(d.control, 9), <<"0">>, <<"T">>, <<":">>>>,
     <<<<"GS">>, <<FunctionalCode[d.type]>>, d.sender, d.receiver, <<"fixed">>, <<"fixed">>,
       d.control, <<"X">>, <<"004010">>>>,
     <<<<"ST">>, <<d.type>>, PadNum(d.control, 4)>> >>
  \o body
  \o << <<<<"SE">>, Decimal(segCount), PadNum(d.control, 4)>>,
        <<<<"GE">>, <<"1">>, d.control>>,
        <<<<"IEA">>, <<"1">>, PadNum(d.control, 9)>> >>

Generate855(d) ==
  LET Segments(item) ==
        << <<<<"PO1">>, <<"line">>, item.a, <<"EA">>, <<>>, <<>>, <<>>, <<>>>>,
           <<<<"ACK">>, item.b, item.a, <<"EA">>>> >>
  IN  Envelope(d, << <<<<"BAK">>, <<"00">>, <<"AC">>, d.number, <<"fixed">>>> >> \o FlatMap(Segments, d.items),
               3 + 2 * Len(d.items))

Hl(n, parent, level) == <<<<"HL">>, Decimal(n), parent, <<level>>>>

(* A pack whose HL has number n: each item points at the HL before it. *)
Pack(skus, n) ==
  << Hl(n, Decimal(1), "P"), <<<<"MAN">>, <<"GM">>, <<"fixed">>>> >>
  \o Flatten([i \in DOMAIN skus |->
       << Hl(n + i, Decimal(n + i - 1), "I"),
          <<<<"SN1">>, <<>>, <<"fixed">>, <<"EA">>>>,
          <<<<"LIN">>, <<>>, <<"VP">>, skus[i]>> >>])

(* hlCount when the loop comes to the pack at i. *)
HlCount(packs, i) == 2 + Sum(LAMBDA skus : 1 + Len(skus), SubSeq(packs, 1, i - 1))

Generate856(d) ==
  Envelope(d,
    << <<<<"BSN">>, <<"00">>, <<"shipment">>, <<"fixed">>, <<"fixed">>>>,
       Hl(1, <<>>, "S"),
       <<<<"TD5">>, <<>>, <<"2">>, <<>>, <<>>, <<>>>>,
       <<<<"REF">>, <<"BM">>, d.number>> >>
    \o Flatten([i \in DOMAIN d.items |-> Pack(d.items[i], HlCount(d.items, i))]),
    3 + 3 + Sum(LAMBDA skus : 2 + 3 * Len(skus), d.items))

(* Bug: a PID is not counted. *)
ItemSegmentsOne(item) == 1

ItemSegments(item) == IF item.b = <<>> THEN 1 ELSE 2

Generate810(d) ==
  LET Segments(item) ==
        << <<<<"IT1">>, <<"line">>, <<"fixed">>, <<"EA">>, item.a>> >>
        \o IF item.b = <<>> THEN <<>>
           ELSE << <<<<"PID">>, <<"F">>, <<>>, <<>>, <<>>, item.b>> >>
  IN  Envelope(d,
        << <<<<"BIG">>, <<"fixed">>, <<"invoice">>, <<>>, d.number>> >>
        \o FlatMap(Segments, d.items)
        \o << <<<<"TDS">>, <<"fixed">>>> >>,
        3 + Sum(ItemSegments, d.items) + 1)

(* An 850 is what a partner sends: its body is given. *)
Document(d) ==
  CASE d.type = "855" -> Generate855(d)
    [] d.type = "856" -> Generate856(d)
    [] d.type = "810" -> Generate810(d)
    [] d.type = "850" -> Envelope(d, d.items, 2 + Len(d.items))

(* Elements are joined by "*" and segments ended by "~", with no escape, and *)
(* a newline is between segments.                                            *)
Line(seg) == Flatten([j \in DOMAIN seg |-> (IF j = 1 THEN <<>> ELSE <<"*">>) \o seg[j]])

Text(segments) ==
  Flatten([i \in DOMAIN segments |-> ((IF i = 1 THEN <<>> ELSE <<"space">>) \o Line(segments[i])) \o <<"~">>])

-----------------------------------------------------------------------------
Split(s, sep) ==
  LET parts[n \in 0 .. Len(s)] ==  \* of the first n characters
        LET cuts == { i \in 1 .. n : s[i] = sep }
        IN  IF cuts = {} THEN <<SubSeq(s, 1, n)>>
            ELSE Append(parts[Max(cuts) - 1], SubSeq(s, Max(cuts) + 1, n))
  IN  parts[Len(s)]

Ink(s) == { i \in DOMAIN s : s[i] # "space" }

Trim(s) == IF Ink(s) = {} THEN <<>> ELSE SubSeq(s, Min(Ink(s)), Max(Ink(s)))

None == <<"undefined">>

El(seg, i) == IF i + 1 <= Len(seg) THEN seg[i + 1] ELSE None

Where(segments, id) == { i \in DOMAIN segments : segments[i][1] = <<id>> }

(* Of several segments of a kind the last decides. *)
LastOf(segments, id, i) ==
  IF Where(segments, id) = {} THEN <<>> ELSE El(segments[Max(Where(segments, id))], i)

DocumentType(segments) == LastOf(segments, "ST", 1)
SenderId(segments) == Trim(LastOf(segments, "ISA", 6))
ControlNumber(segments) == Trim(LastOf(segments, "ISA", 13))

ParseX12(text) ==
  LET parts == Split(text, "~")
      lines == Select(LAMBDA l : l # <<>>, [i \in DOMAIN parts |-> Trim(parts[i])])
  IN  [i \in DOMAIN lines |-> Split(lines[i], "*")]

WithDescription(item, text) ==
  [key \in {"description"} \cup DOMAIN item |-> IF key = "description" THEN text ELSE item[key]]

PushItem(items, item) == IF DOMAIN item = {} THEN items ELSE Append(items, item)

(* Bug: the last item is only pushed by a PO1 that follows. *)
PushLastNot(acc) == acc.items

PushLast(acc) == PushItem(acc.items, acc.current)

(* extractPOData: the items; what it takes from BEG, N1 and CTT is left out. *)
ExtractItems(segments) ==
  PushLast(Fold(
    LAMBDA acc, seg :
      CASE seg[1] = <<"PO1">> ->
             [items |-> PushItem(acc.items, acc.current),
              current |-> [line_number |-> El(seg, 1), quantity |-> El(seg, 2), unit_price |-> El(seg, 4),
                           buyer_sku |-> IF El(seg, 7) # None THEN El(seg, 7) ELSE El(seg, 5)]]
        [] seg[1] = <<"PID">> ->
             [acc EXCEPT !.current = WithDescription(@, El(seg, 5))]
        [] OTHER -> acc,
    [items |-> <<>>, current |-> <<>>], segments))

-----------------------------------------------------------------------------
(* Segments between the envelope of an 850, of any kind but HL. *)
OrderIds == {"BEG", "CUR", "REF", "PER", "DTM", "N1", "N3", "N4", "PO1", "PID", "CTT", "AMT"}

(* A PO1 has a line number, a PID a description. *)
IsOrderSegment(seg) ==
  /\ seg # <<>> /\ \E id \in OrderIds : seg[1] = <<id>>
  /\ seg[1] = <<"PO1">> => Len(seg) >= 2
  /\ seg[1] = <<"PID">> => Len(seg) >= 6

Init == doc \in Docs /\ sent = <<>> /\ parsed = <<>>

Exchange ==
  /\ sent = <<>>
  /\ sent' = Document(doc)
  /\ \E text \in {Text(sent')} : parsed' = ParseX12(text)
  /\ UNCHANGED doc

Spec == Init /\ [][Exchange]_vars

-----------------------------------------------------------------------------
Clean(segments) ==
  \A i \in DOMAIN segments : \A e \in DOMAIN segments[i] :
    {"*", "~"} \cap ToSet(segments[i][e]) = {}

TrimEnd(s) == IF Ink(s) = {} THEN <<>> ELSE SubSeq(s, 1, Max(Ink(s)))

TrimLast(seg) == [j \in DOMAIN seg |-> IF j = Len(seg) THEN TrimEnd(seg[j]) ELSE seg[j]]

(* Segments without the spaces at their ends. *)
Received(segments) == [i \in DOMAIN segments |-> TrimLast(segments[i])]

NoSpace(s) == "space" \notin ToSet(s)

(* A document comes back exactly when no field holds a separator, which the  *)
(* generator does not escape, with all it was sent with but the spaces at    *)
(* the end of a segment's last field.  An identifier of up to 15 characters  *)
(* comes back whole unless a space begins or ends it, and a control number   *)
(* of up to 9 digits behind its zeros.                                       *)
ParsesBack ==
  sent # <<>> =>
    /\ Clean(sent) <=> parsed = Received(sent)
    /\ Clean(sent) =>
         /\ DocumentType(parsed) = <<doc.type>>
         /\ Len(doc.sender) <= 15 /\ Trim(doc.sender) = doc.sender => SenderId(parsed) = doc.sender
         /\ Len(doc.control) <= 9 /\ NoSpace(doc.control) => IsSuffix(doc.control, ControlNumber(parsed))

The(segments, id) == CHOOSE i \in Where(segments, id) : TRUE

(* What a receiver checks: the count of SE is that of the segments from ST   *)
(* to SE, the numbers of the trailers are those of the headers, and the HLs  *)
(* are numbered from 1 without a gap and point at an earlier one.            *)
EnvelopeAgrees ==
  sent # <<>> /\ Clean(sent) /\ NoSpace(doc.control) =>
    LET s == parsed
        st == s[The(s, "ST")]
        se == s[The(s, "SE")]
        hls == Select(LAMBDA seg : seg[1] = <<"HL">>, s)
    IN  /\ se[2] = Decimal(The(s, "SE") - The(s, "ST") + 1)
        /\ st[3] = se[3]
        /\ s[The(s, "GS")][7] = s[The(s, "GE")][3]
        /\ s[The(s, "ISA")][14] = s[The(s, "IEA")][3]
        /\ \A i \in DOMAIN hls :
             /\ hls[i][2] = Decimal(i)
             /\ i > 1 => \E j \in 1 .. i - 1 : hls[i][3] = Decimal(j)

(* From a document without separators in its fields extractPOData returns    *)
(* one item per PO1, in their order and with the last PID that follows each, *)
(* after an item of a description alone when a PID comes before the first    *)
(* PO1.                                                                      *)
ItemsOfOrder ==
  sent # <<>> /\ Clean(sent) /\ doc.type = "850" =>
    LET body == Received(doc.items)
        po1s == Where(body, "PO1")
        Owner(i) == { p \in po1s : p <= i /\ \A q \in po1s : q <= i => q <= p }
        pids(p) == { i \in Where(body, "PID") : Owner(i) = p }
        Described(item, own) ==
          IF own = {} THEN "description" \notin DOMAIN item
          ELSE item.description = body[CHOOSE i \in own : \A j \in own : j <= i][6]
        items == ExtractItems(parsed)
        phantom == IF pids({}) = {} THEN 0 ELSE 1
    IN  /\ Len(items) = phantom + Cardinality(po1s)
        /\ phantom = 1 => Described(items[1], pids({}))
        /\ \A p \in po1s :
             LET item == items[phantom + Cardinality({ q \in po1s : q <= p })]
             IN  item.line_number = body[p][2] /\ Described(item, pids({p}))

(* docs/FC_SalesOrder_Connector_Design.md, "ASN with HL hierarchy            *)
(* (S->O->P->I)": the HL of an item points at that of a pack.                *)
ItemsInPacks ==
  sent # <<>> =>
    \A i, j \in Where(parsed, "HL") :
      LET hl(k) == parsed[k]
      IN  hl(i)[4] = <<"I">> /\ hl(j)[2] = hl(i)[3] => hl(j)[4] = <<"P">>
=============================================================================
