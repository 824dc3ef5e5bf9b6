------------------------------- MODULE Mapping -------------------------------
(***************************************************************************)
(* mapping/engine.ts, transform.ts and ai-mapper.ts: a configuration,      *)
(* written by hand or made of the heuristic's suggestions, is applied to a *)
(* source record, field by field.  Objects are held by reference, as in    *)
(* JavaScript: heap gives the properties of each.  Other values are the    *)
(* kinds that the transforms tell apart: "text", "number", "date", "null", *)
(* "undefined", "NaN", "string" (of String() and toFixed) and "default".    *)
(***************************************************************************)
EXTENDS Integers, Sequences, SequencesExt, FiniteSetsExt

CONSTANTS Configs,       \* sequences of fields
          Source,        \* objects of the source record, whose root is "src"
          New,           \* object that a field makes at each depth of its target
          SourceFields, TargetFields,  \* arguments of heuristicMap, sequences
          Scores         \* what similarity may return, in tenths

VARIABLES
  score,   \* similarity of each pair, or empty with a configuration by hand
  config,  \* sequence of fields
  done,    \* fields that the loop has passed
  heap,    \* objects: those of the source, "res" and what setNestedValue made
  errors,  \* fields in the list of errors
  outcome  \* "running", "returned" or "thrown"

vars == <<score, config, done, heap, errors, outcome>>

-----------------------------------------------------------------------------
(* ai-mapper.ts *)
Pairs == (1 .. Len(SourceFields)) \X (1 .. Len(TargetFields))

Names(p) == <<SourceFields[p[1]], TargetFields[p[2]]>>

(* The order in which the two loops push the candidates. *)
Pushed(p, q) == p[1] < q[1] \/ (p[1] = q[1] /\ p[2] < q[2])

(* Bug: the candidates are not sorted. *)
BetterNot(sc, p, q) == Pushed(p, q)

(* The sort is stable. *)
Better(sc, p, q) ==
  sc[Names(p)] > sc[Names(q)] \/ (sc[Names(p)] = sc[Names(q)] /\ Pushed(p, q))

(* A target that is used is skipped; a source may be used again. *)
HeuristicMap(sc, threshold) ==
  LET candidates == { p \in Pairs : sc[Names(p)] >= threshold }
  IN  { p \in candidates : \A q \in candidates \ {p} :
          Names(q)[2] = Names(p)[2] => Better(sc, p, q) }

Field(from, to, rule, need) == [from |-> from, to |-> to, rule |-> rule, need |-> need]

SuggestionsToMappings(sc, suggestions, minConfidence) ==
  LET kept == { p \in suggestions : sc[Names(p)] >= minConfidence }
      Ranked(k) == CHOOSE p \in kept : Cardinality({ q \in kept : Better(sc, q, p) }) = k - 1
  IN  [k \in 1 .. Cardinality(kept) |->
         Field(<<Names(Ranked(k))[1]>>, <<Names(Ranked(k))[2]>>, "direct",
               IF sc[Names(Ranked(k))] >= 9 THEN "required" ELSE "optional")]

-----------------------------------------------------------------------------
(* transform.ts *)
Copying == {"direct", "custom", "lookup"}

TextRules == {"concat", "to_upper", "to_lower", "trim", "pad_left", "pad_right", "substring", "replace",
              "to_fixed", "currency_convert"}
NumberRules == {"math_multiply", "math_add", "unit_convert"}

Rules == Copying \cup TextRules \cup NumberRules
           \cup {"format_date", "math_divide by zero", "split", "unknown"}

Throws(rule, v) ==
  \/ rule = "format_date" /\ v # "date"  \* toISOString of an invalid date
  \/ rule = "unknown"

(* The index of split is beyond the parts; no key of lookup's table fits. *)
Transform(rule, v) ==
  CASE rule \in Copying -> v
    [] rule \in TextRules \cup {"format_date"} -> "string"
    [] rule \in NumberRules -> IF v = "number" THEN "number" ELSE "NaN"
    [] rule = "math_divide by zero" -> "number"
    [] rule = "split" -> "undefined"

(* Values that are no objects. *)
Kinds == {"text", "number", "date", "null", "undefined", "NaN", "string", "default"}

Fields == [from : Seq(STRING) \ {<<>>}, to : Seq(STRING) \ {<<>>},
           rule : Rules, need : {"required", "optional", "default"}]

-----------------------------------------------------------------------------
(* engine.ts *)
IsObject(h, v) == v \in DOMAIN h

With(f, x, v) == [y \in DOMAIN f \cup {x} |-> IF y = x THEN v ELSE f[y]]

Get(h, root, path) ==
  LET at[n \in 0 .. Len(path)] ==
        IF n = 0 THEN root
        ELSE IF IsObject(h, at[n - 1]) /\ path[n] \in DOMAIN h[at[n - 1]] THEN h[at[n - 1]][path[n]]
        ELSE "undefined"
  IN  at[Len(path)]

Upto(path, n) == SubSeq(path, 1, n)

(* Bug: what is not the last part is created without a look at what is there.*)
DepthNone(h, root, path) == 0

(* How many parts of the path, before the last, lead to objects. *)
Depth(h, root, path) ==
  Max({ n \in 0 .. Len(path) - 1 : IsObject(h, Get(h, root, Upto(path, n))) })

(* setNestedValue goes down as far as there are objects; below, each part but*)
(* the last gets a new one, in the place of any other value.                 *)
Set(h, root, i, path, v) ==
  LET d == Depth(h, root, path)
      Placed(n) == IF n = Len(path) THEN v ELSE New[i, n]
      made == d + 1 .. Len(path) - 1  \* depths of new objects
  IN  [o \in DOMAIN h \cup { New[i, n] : n \in made } |->
         IF o = Get(h, root, Upto(path, d)) THEN With(h[o], path[d + 1], Placed(d + 1))
         ELSE IF IsObject(h, o) THEN h[o]
         ELSE LET n == CHOOSE n \in made : New[i, n] = o IN With(<<>>, path[n + 1], Placed(n + 1))]

Value(h, f) ==
  LET v == Get(h, "src", f.from)
  IN  IF v \in {"undefined", "null"} THEN IF f.need = "default" THEN "default" ELSE "undefined"
      ELSE v

Init ==
  /\ heap = With(Source, "res", <<>>)
  /\ done = 0 /\ errors = {} /\ outcome = "running"
  /\ \/ score = <<>> /\ config \in Configs
     \/ /\ score \in [ToSet(SourceFields) \X ToSet(TargetFields) -> Scores]
        /\ config = SuggestionsToMappings(score, HeuristicMap(score, 5), 6)

(* Bug: the result starts as the source. *)
ApplyFieldInPlace(i) ==
  LET f == config[i]
      v == Value(heap, f)
  IN  \/ v = "undefined" /\ UNCHANGED heap
         /\ errors' = IF f.need = "required" THEN errors \cup {f} ELSE errors
      \/ v # "undefined" /\ Throws(f.rule, v) /\ errors' = errors \cup {f} /\ UNCHANGED heap
      \/ v # "undefined" /\ ~Throws(f.rule, v) /\ UNCHANGED errors
         /\ heap' = Set(heap, "src", i, f.to, Transform(f.rule, v))

ApplyField(i) ==
  LET f == config[i]
      v == Value(heap, f)
  IN  \/ v = "undefined" /\ UNCHANGED heap
         /\ errors' = IF f.need = "required" THEN errors \cup {f} ELSE errors
      \/ v # "undefined" /\ Throws(f.rule, v) /\ errors' = errors \cup {f} /\ UNCHANGED heap
      \/ v # "undefined" /\ ~Throws(f.rule, v) /\ UNCHANGED errors
         /\ heap' = Set(heap, "res", i, f.to, Transform(f.rule, v))

Loop ==
  /\ outcome = "running" /\ done < Len(config)
  /\ ApplyField(done + 1)
  /\ done' = done + 1
  /\ UNCHANGED <<score, config, outcome>>

(* From the root, getLeafPaths can go down for ever. *)
Endless(h) ==
  \E objects \in SUBSET DOMAIN h :
    /\ "src" \in objects
    /\ \A o \in objects : \E key \in DOMAIN h[o] : h[o][key] \in objects

(* getLeafPaths, outside of try, exhausts the stack on a cyclic source. *)
Return ==
  /\ outcome = "running" /\ done = Len(config)
  /\ outcome' = IF Endless(heap) THEN "thrown" ELSE "returned"
  /\ UNCHANGED <<score, config, done, heap, errors>>

Next == Loop \/ Return

Spec == Init /\ [][Next]_vars

-----------------------------------------------------------------------------
(* A field copies an object of the source, and the target of a later one is  *)
(* below the copy: it is written to the source.                              *)
Aliases ==
  \E i, j \in DOMAIN config :
    /\ i < j /\ IsStrictPrefix(config[i].to, config[j].to)
    /\ config[i].rule \in Copying
    /\ IsObject(Source, Get(Source, "src", config[i].from))

(* applyMapping leaves the record it is given as it was, and returns, unless *)
(* the configuration writes below an object that it copied.                  *)
SourceKept ==
  /\ ~Aliases => \A o \in DOMAIN Source : heap[o] = Source[o]
  /\ outcome = "thrown" => Aliases

Clashes ==
  \E i, j \in DOMAIN config : i # j /\ IsPrefix(config[i].to, config[j].to)

Written(f) == Value(Source, f) # "undefined" /\ ~Throws(f.rule, Value(Source, f))

(* When targets do not clash, the result has the transformed value of each   *)
(* field at its target and no property of any other name, and success means  *)
(* that no required field is missing and no transform threw.  It does not    *)
(* mean that a value is there: an index of split that is out of range leaves *)
(* undefined, and a number made of a text is NaN.                            *)
MappedAsConfigured ==
  outcome = "returned" /\ ~Clashes =>
    /\ \A i \in DOMAIN config :
         LET f == config[i]
         IN  Get(heap, "res", f.to) =
               IF Written(f) THEN Transform(f.rule, Value(Source, f)) ELSE "undefined"
    /\ \A key \in DOMAIN heap["res"] :
         \E i \in DOMAIN config : Written(config[i]) /\ config[i].to[1] = key
    /\ errors = {} <=>
         \A i \in DOMAIN config :
           \/ Written(config[i])
           \/ Value(Source, config[i]) = "undefined" /\ config[i].need # "required"

(* Of the suggestions, a target gets the value of the source that is most    *)
(* like it, the first of them if several are, when that is 0.6 alike or more.*)
BestSourceWins ==
  outcome = "returned" /\ DOMAIN score # {} =>
    \A t \in ToSet(TargetFields) :
      LET like(i) == score[<<SourceFields[i], t>>]
          best == CHOOSE i \in DOMAIN SourceFields : \A j \in DOMAIN SourceFields :
                    like(j) < like(i) \/ (like(j) = like(i) /\ i <= j)
          v == Get(Source, "src", <<SourceFields[best]>>)
      IN  Get(heap, "res", <<t>>) = IF like(best) < 6 \/ v = "null" THEN "undefined" ELSE v
=============================================================================
