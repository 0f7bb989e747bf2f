----------------------------- MODULE JobFilters -----------------------------
(***************************************************************************)
(* The list filters of the job listing API (windmill-api-jobs):           *)
(* NegatedListFilter's parser (negated_filter.rs) and the WHERE clauses   *)
(* filter_list_queue_query and filter_list_completed_query (query.rs)     *)
(* build from a parsed filter.  A string is a sequence of one-character   *)
(* strings.  A clause is evaluated the way PostgreSQL evaluates it, in     *)
(* three-valued logic: a row is listed only when the clause is TRUE.      *)
(* The quote escaping of the literals (quote, replace("'", "''")) only     *)
(* encodes the value, so a literal stands for the value itself.           *)
(***************************************************************************)
EXTENDS Naturals, Sequences, SequencesExt

\* The truth values of SQL; Unknown is the NULL of a boolean expression.
SqlTrue == "true"
SqlFalse == "false"
Unknown == "unknown"
Null == <<"NULL">>             \* a NULL column, no string of ValueChars

Bool(b) == IF b THEN SqlTrue ELSE SqlFalse
SqlNot(b) == CASE b = Unknown -> Unknown [] b = SqlTrue -> SqlFalse [] OTHER -> SqlTrue
SqlAnd(S) == CASE SqlFalse \in S -> SqlFalse [] Unknown \in S -> Unknown [] OTHER -> SqlTrue
SqlOr(S) == CASE SqlTrue \in S -> SqlTrue [] Unknown \in S -> Unknown [] OTHER -> SqlFalse

\* x LIKE p: '%' matches any run of characters, '_' any one character.
RECURSIVE Like(_, _)
Like(x, p) ==
    IF p = <<>> THEN x = <<>>
    ELSE IF Head(p) = "%"
         THEN Like(x, Tail(p)) \/ (x # <<>> /\ Like(Tail(x), p))
         ELSE x # <<>> /\ Head(p) \in {"_", Head(x)} /\ Like(Tail(x), Tail(p))

SqlLike(x, p) == IF x = Null THEN Unknown ELSE Bool(Like(x, p))
SqlIn(x, vals) == IF x = Null THEN Unknown ELSE Bool(x \in vals)

(***************************************************************************)
(* NegatedListFilterVisitor::visit_str: split on ',', strip one leading   *)
(* '!' from every item, and take the negation from the first item only.   *)
(* The value type is String, so the serde_json conversion cannot fail.    *)
(* The values are a set: every clause is an OR or AND over them, so the  *)
(* Vec's order and repetitions do not change what a clause selects.      *)
(***************************************************************************)
RECURSIVE Split(_)
Split(s) ==
    IF \A i \in 1..Len(s) : s[i] # ","
    THEN <<s>>
    ELSE LET c == CHOOSE i \in 1..Len(s) : s[i] = "," /\ \A j \in 1..i - 1 : s[j] # ","
         IN <<SubSeq(s, 1, c - 1)>> \o Split(SubSeq(s, c + 1, Len(s)))

Bang(item) == item # <<>> /\ Head(item) = "!"
StripBang(item) == IF Bang(item) THEN Tail(item) ELSE item

ParseList(s) ==
    LET items == Split(s)
    IN [values |-> {StripBang(items[i]) : i \in 1..Len(items)},
        negated |-> Bang(items[1])]

(***************************************************************************)
(* The clause shapes of query.rs.  f is a parsed filter, x the column.    *)
(***************************************************************************)

\* A NOT IN clause without the NULL test (the and_where_not_in the
\* nullable columns used before not_in_nullable).
NotInPlain(x, vals) == SqlNot(SqlIn(x, vals))

\* not_in_nullable: "(col IS NULL OR col NOT IN (...))".
NotInNullable(x, vals) == SqlOr({Bool(x = Null), SqlNot(SqlIn(x, vals))})

\* The IN / NOT IN of a column: the nullable columns go through
\* not_in_nullable, the others through and_where_not_in.
InFilter(f, x, nullable) ==
    IF ~f.negated THEN SqlIn(x, f.values)
    ELSE IF nullable THEN NotInNullable(x, f.values)
    ELSE SqlNot(SqlIn(x, f.values))

\* The wildcard pattern: v.replace("*", "%").
WildPattern(v) == ReplaceAll(v, "*", "%")

\* script_path_start: "runnable_path LIKE 'e%'".
PrefixPattern(v) == v \o <<"%">>

\* "LIKE p1 OR LIKE p2 ..." or "NOT LIKE p1 AND NOT LIKE p2 ...", the
\* negated form wrapped in "col IS NULL OR (...)" for a nullable column;
\* the patterns are prefixes or wildcard patterns.
LikeFilter(f, x, prefix, nullable) ==
    LET pat(v) == IF prefix THEN PrefixPattern(v) ELSE WildPattern(v)
    IN  IF ~f.negated THEN SqlOr({SqlLike(x, pat(v)) : v \in f.values})
        ELSE LET inner == SqlAnd({SqlNot(SqlLike(x, pat(v))) : v \in f.values})
             IN  IF nullable THEN SqlOr({Bool(x = Null), inner}) ELSE inner

(***************************************************************************)
(* The wm_labels of a completed job's result: no result, a result without *)
(* the key, or an array of labels.                                        *)
(***************************************************************************)
NoResult == [noResult |-> TRUE]
NoKey == [noKey |-> TRUE]
LabelArray(a) == [labels |-> a]

\* result ? 'wm_labels'
HasLabelsKey(l) == IF l = NoResult THEN Unknown ELSE Bool(l # NoKey)

\* result->'wm_labels' ? 'v': NULL when the key is missing.
LabelsContain(l, v) == IF l \in {NoResult, NoKey} THEN Unknown ELSE Bool(v \in l.labels)

\* EXISTS (SELECT 1 FROM jsonb_array_elements_text(result->'wm_labels') lbl
\*         WHERE ... lbl LIKE 'p'): no elements when the key is missing.
SomeLabelLike(l, p) == l \notin {NoResult, NoKey} /\ \E lbl \in l.labels : Like(lbl, p)

LabelFilter(f, l, wild) ==
    CASE wild /\ f.negated ->
            SqlAnd({Bool(~SomeLabelLike(l, WildPattern(v))) : v \in f.values})
      [] wild ->
            SqlAnd({HasLabelsKey(l), SqlOr({Bool(SomeLabelLike(l, WildPattern(v))) : v \in f.values})})
      [] f.negated ->
            SqlAnd({SqlNot(LabelsContain(l, v)) : v \in f.values})
      [] OTHER ->
            SqlAnd({HasLabelsKey(l), SqlOr({LabelsContain(l, v) : v \in f.values})})

(***************************************************************************)
(* The list filters of each builder.  A column is nullable as the code    *)
(* treats it: worker, runnable_path, trigger_kind and trigger are.        *)
(***************************************************************************)
QueueFields == {"worker", "script_path_start", "script_path_exact", "created_by",
                "tag", "job_kinds", "trigger_kind", "trigger_path"}
CompletedFields == QueueFields \union {"label"}
Nullable == {"worker", "script_path_start", "script_path_exact",
             "trigger_kind", "trigger_path"}

\* The clause a list filter of field fld adds to the queue list's WHERE.
\* The scalar filters (schedule_path, script_hash, running, the dates...)
\* add clauses on other columns and are left out.
filter_list_queue_query(fld, f, wild, x) ==
    CASE fld \in {"worker", "tag"} /\ wild ->
            LikeFilter(f, x, FALSE, fld \in Nullable)
      [] fld = "script_path_start" ->
            LikeFilter(f, x, TRUE, TRUE)
      [] OTHER -> InFilter(f, x, fld \in Nullable)

\* The completed list: the same clauses, and the label filter.
filter_list_completed_query(fld, f, wild, x) ==
    IF fld = "label" THEN LabelFilter(f, x, wild)
    ELSE filter_list_queue_query(fld, f, wild, x)

\* A row is listed when its clause is TRUE.
Listed(list, fld, f, wild, x) ==
    IF list = "queue" THEN filter_list_queue_query(fld, f, wild, x) = SqlTrue
    ELSE filter_list_completed_query(fld, f, wild, x) = SqlTrue

(***************************************************************************)
(* Bounded inputs: filter strings over '!', ',', a value character and    *)
(* the two pattern characters, and the column values a job can hold.      *)
(***************************************************************************)
CONSTANTS FilterChars, ValueChars, MaxFilterLen, MaxValueLen, Labels

Values == BoundedSeq(ValueChars, MaxValueLen)
Column(fld) ==
    CASE fld = "label" -> {NoResult, NoKey} \union {LabelArray(a) : a \in SUBSET Labels}
      [] fld \in Nullable -> Values \union {Null}
      [] OTHER -> Values

\* The filter strings whose first item carries no '!'.
PositiveFilters ==
    {s \in BoundedSeq(FilterChars, MaxFilterLen) : ~Bang(s)}

\* Prefixing a filter with '!' lists exactly the jobs the filter does not
\* list, NULL columns included: not_in_nullable and the "IS NULL OR" of the
\* negated LIKE clauses keep the jobs a positive filter can never match,
\* and the '!' of the first item negates every item.  The label filter
\* without wildcards is left out (see the README).
NegationComplementsFor(s) ==
    LET pos == ParseList(s)
        neg == ParseList(<<"!">> \o s)
    IN \A list \in {"queue", "completed"}, wild \in BOOLEAN :
         \A fld \in IF list = "queue" THEN QueueFields ELSE CompletedFields :
           (fld = "label" /\ ~wild) \/
           \A x \in Column(fld) :
              Listed(list, fld, neg, wild, x) <=> ~Listed(list, fld, pos, wild, x)

====
