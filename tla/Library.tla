------------------------------- MODULE Library -------------------------------
(***************************************************************************)
(* What runs from its first to its last line without giving way to others: *)
(* the rate limiter, the mapping engine and the X12 adapters.  They share  *)
(* nothing, and a behaviour exercises one of them.                         *)
(***************************************************************************)
EXTENDS RateLimiter, Sequences, SequencesExt

CONSTANTS Configs, Source, New, SourceFields, TargetFields, Scores,  \* of Mapping
          Docs                                                       \* and of X12

VARIABLES part, score, config, done, heap, errors, outcome, doc, sent, parsed

Map == INSTANCE Mapping
X == INSTANCE X12

(* The record is a tree of objects, as JSON.parse makes them. *)
ASSUME SourceAssumption ==
  /\ "src" \in DOMAIN Source
  /\ DOMAIN Source \cap (Map!Kinds \cup {"res"}) = {}
  /\ \A o \in DOMAIN Source : \A key \in DOMAIN Source[o] :
       Source[o][key] \in Map!Kinds \cup DOMAIN Source
  /\ ~Map!Endless(Source)

(* Splitting a path gives one part at least.                                 *)
ASSUME FieldsAssumption ==
  /\ \A c \in Configs : c \in Seq(Map!Fields)
  /\ SourceFields \in Seq(STRING) /\ TargetFields \in Seq(STRING)
  /\ Scores \subseteq Int

(* Objects that are made are not those there are. *)
ASSUME NewAssumption ==
  /\ \A c \in Configs : \A i \in DOMAIN c : \A n \in 1 .. Len(c[i].to) - 1 : <<i, n>> \in DOMAIN New
  /\ \A x, y \in DOMAIN New : New[x] = New[y] => x = y
  /\ \A x \in DOMAIN New : New[x] \notin DOMAIN Source \cup Map!Kinds \cup {"res"}

(* The fields of the data are strings, whatever their characters and length. *)
ASSUME DocumentsAssumption ==
  \A d \in Docs :
    /\ {d.number, d.control, d.sender, d.receiver} \subseteq Seq(STRING)
    /\ \/ d.type \in {"855", "810"} /\ d.items \in Seq([a : Seq(STRING), b : Seq(STRING)])
       \/ d.type = "856" /\ d.items \in Seq(Seq(Seq(STRING)))
       \/ /\ d.type = "850" /\ d.items \in Seq(Seq(Seq(STRING)))
          /\ \A i \in DOMAIN d.items : X!IsOrderSegment(d.items[i])

mapping == <<score, config, done, heap, errors, outcome>>
documents == <<doc, sent, parsed>>

NoMapping == config = <<>> /\ score = <<>> /\ Map!Init
NoDocument == doc = "none" /\ sent = <<>> /\ parsed = <<>>

LibraryInit ==
  /\ Init
  /\ \/ part = "limiter" /\ NoMapping /\ NoDocument
     \/ part = "mapping" /\ Map!Init /\ NoDocument
     \/ part = "x12" /\ X!Init /\ NoMapping

LibraryNext ==
  /\ UNCHANGED part
  /\ \/ part = "limiter" /\ Next /\ UNCHANGED <<mapping, documents>>
     \/ part = "mapping" /\ Map!Next /\ UNCHANGED <<vars, documents>>
     \/ part = "x12" /\ X!Exchange /\ UNCHANGED <<vars, mapping>>

LibrarySpec == LibraryInit /\ [][LibraryNext]_<<part, vars, mapping, documents>>

(* SourceKept of Mapping. *)
SourceKept == Map!SourceKept

(* MappedAsConfigured of Mapping. *)
MappedAsConfigured == Map!MappedAsConfigured

(* BestSourceWins of Mapping. *)
BestSourceWins == Map!BestSourceWins

(* ParsesBack of X12. *)
ParsesBack == X!ParsesBack

(* EnvelopeAgrees of X12. *)
EnvelopeAgrees == X!EnvelopeAgrees

(* ItemsOfOrder of X12. *)
ItemsOfOrder == X!ItemsOfOrder

(* ItemsInPacks of X12. *)
ItemsInPacks == X!ItemsInPacks
=============================================================================
