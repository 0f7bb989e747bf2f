---------------------------- MODULE BucketAccess ----------------------------
(***************************************************************************)
(* Two access configurations of the object store, as pure operators.      *)
(*                                                                         *)
(* S3Permission (windmill-types, s3.rs): a bitflags byte READ|WRITE|      *)
(* DELETE|LIST, written to JSON as a comma-separated list of names and    *)
(* read back by splitting on ','.  A permission string is a sequence of   *)
(* tokens: a permission name, ',' or any other text ("x", " ").  Tokens    *)
(* next to each other form one item, so <<"read", "write">> is the item   *)
(* "readwrite".                                                            *)
(*                                                                         *)
(* S3_BUCKETS_WORKSPACE_RESTRICTIONS (windmill-object-store, lib.rs):      *)
(* "bucket:ws1,ws2;bucket2:ws3", parsed once into a map from bucket to     *)
(* the workspaces allowed to use it, and checked on every access.  The    *)
(* variable's text is a sequence of one-character strings.                *)
(***************************************************************************)
EXTENDS Naturals, Sequences, SequencesExt, Bitwise

(***************************************************************************)
(* S3Permission                                                            *)
(***************************************************************************)
READ == 1
WRITE == 2
DELETE == 4
LIST == 8
Names == <<"read", "write", "delete", "list">>     \* in the order serialize pushes them
Bit == [n \in {"read", "write", "delete", "list"} |->
          CASE n = "read" -> READ [] n = "write" -> WRITE
            [] n = "delete" -> DELETE [] OTHER -> LIST]
Permissions == 0..15

\* self.contains(flag)
HasFlag(p, f) == (p & f) = f

\* Join a sequence of items with ','.
JoinComma(items) ==
    IF items = <<>> THEN <<>>
    ELSE FoldLeft(LAMBDA acc, it : acc \o <<",">> \o it, Head(items), Tail(items))

\* str::split(d): n separators give n+1 items.
RECURSIVE SplitOn(_, _)
SplitOn(s, d) ==
    LET c == SelectInSeq(s, LAMBDA x : x = d)
    IN  IF c = 0 THEN <<s>>
        ELSE <<SubSeq(s, 1, c - 1)>> \o SplitOn(SubSeq(s, c + 1, Len(s)), d)

\* Serialize: push the name of every flag set, in flag order, join with ','.
SerializePermission(p) ==
    LET perms == SelectSeq(Names, LAMBDA n : HasFlag(p, Bit[n]))
    IN  JoinComma([i \in DOMAIN perms |-> <<perms[i]>>])

\* The flag one item names; any other item adds S3Permission::empty().
ItemFlag(item) ==
    IF \E n \in DOMAIN Bit : item = <<n>>
    THEN Bit[CHOOSE n \in DOMAIN Bit : item = <<n>>]
    ELSE 0

\* Mutant: each item replaces the flags read so far (= for |=).
DeserializeLastWins(s) ==
    FoldLeft(LAMBDA perms, item : ItemFlag(item), 0, SplitOn(s, ","))

\* PermVisitor::visit_str: perms |= the flag of every item.
DeserializePermission(s) ==
    FoldLeft(LAMBDA perms, item : perms | ItemFlag(item), 0, SplitOn(s, ","))

(***************************************************************************)
(* S3_BUCKETS_WORKSPACE_RESTRICTIONS                                       *)
(***************************************************************************)
Blank == " "

RECURSIVE TrimStart(_)
TrimStart(s) == IF s # <<>> /\ Head(s) = Blank THEN TrimStart(Tail(s)) ELSE s

\* str::trim
Trim(s) == Reverse(TrimStart(Reverse(TrimStart(s))))

\* splitn(2, ':'): the text before the first ':' and the text after it,
\* or the whole rule when it has none.
SplitColon(r) ==
    LET c == SelectInSeq(r, LAMBDA x : x = ":")
    IN  IF c = 0 THEN <<r>> ELSE <<SubSeq(r, 1, c - 1), SubSeq(r, c + 1, Len(r))>>

\* The workspaces of a rule: split on ',', trimmed, empty ones dropped.
\* The Vec is only ever asked `contains`, so it is kept as a set.
Workspaces(list) == {Trim(w) : w \in ToSet(SplitOn(list, ","))} \ {<<>>}

\* Mutant: a later rule for a bucket already in the map is ignored
\* (entry().or_insert for insert).
ApplyRuleKeepsFirst(m, rule) ==
    LET r == Trim(rule)
        parts == SplitColon(r)
    IN  IF r = <<>> \/ Len(parts) # 2 \/ Workspaces(parts[2]) = {} THEN m
        ELSE m @@ (Trim(parts[1]) :> Workspaces(parts[2]))

\* One iteration of the loop over input.split(';'): an empty rule, a rule
\* without ':' and a rule without workspaces are skipped with a warning;
\* otherwise restrictions.insert replaces any earlier list of the bucket.
ApplyRule(m, rule) ==
    LET r == Trim(rule)
        parts == SplitColon(r)
    IN  IF r = <<>> \/ Len(parts) # 2 \/ Workspaces(parts[2]) = {} THEN m
        ELSE (Trim(parts[1]) :> Workspaces(parts[2])) @@ m

\* None, or Some(map).
NoRestrictions == [some |-> FALSE]

parse_bucket_restrictions_from_str(input) ==
    IF Trim(input) = <<>> THEN NoRestrictions
    ELSE LET m == FoldLeft(ApplyRule, <<>>, SplitOn(input, ";"))
         IN  IF DOMAIN m = {} THEN NoRestrictions ELSE [some |-> TRUE, map |-> m]

\* Ok(()) when there are no restrictions, the bucket has none, or the
\* workspace is in its list.
check_bucket_workspace_restriction(restrictions, bucket_name, workspace_id) ==
    \/ ~restrictions.some
    \/ bucket_name \notin DOMAIN restrictions.map
    \/ workspace_id \in restrictions.map[bucket_name]

(***************************************************************************)
(* The restriction a rule states, read off its text: `bucket:ws,...`     *)
(* with blanks allowed around every name.                                 *)
(***************************************************************************)
Blanks(n) == [k \in 1..n |-> Blank]

\* x is v with blanks around it.
Padded(x, v) == \E i, j \in 0..Len(x) : x = Blanks(i) \o v \o Blanks(j)

\* The text of a rule before and after its first ':'.
ColonAt(r) == SelectInSeq(r, LAMBDA x : x = ":")
Before(r) == SubSeq(r, 1, ColonAt(r) - 1)
After(r) == SubSeq(r, ColonAt(r) + 1, Len(r))

\* A rule states a restriction when it has a ':' followed by a name.
StatesRestriction(r) ==
    ColonAt(r) > 0 /\ \E k \in 1..Len(After(r)) : After(r)[k] \notin {Blank, ","}

\* w is one of the ','-separated fields of the list, blanks around it.
ListsWorkspace(list, w) ==
    /\ w # <<>>
    /\ \E i, j \in 0..Len(list) + 1 :
          /\ i < j
          /\ i = 0 \/ list[i] = ","
          /\ j = Len(list) + 1 \/ list[j] = ","
          /\ \A k \in i + 1..j - 1 : list[k] # ","
          /\ Padded(SubSeq(list, i + 1, j - 1), w)

\* The reference: a workspace may use a bucket unless some rule states a
\* restriction for the bucket, and then only if the last such rule lists
\* the workspace.
RefAllowed(input, b, w) ==
    LET rules == SplitOn(input, ";")
        naming == {i \in DOMAIN rules :
                      StatesRestriction(rules[i]) /\ Padded(Before(rules[i]), b)}
    IN  naming = {} \/
        ListsWorkspace(After(rules[CHOOSE i \in naming : \A j \in naming : j <= i]), w)

(***************************************************************************)
(* Bounded inputs.                                                         *)
(***************************************************************************)
CONSTANTS RuleChars, MaxRuleLen, NameChars, MaxNameLen

RestrictionInputs == BoundedSeq(RuleChars, MaxRuleLen)
BucketNames == BoundedSeq(NameChars, MaxNameLen)

(***************************************************************************)
(* Properties, for one input.                                              *)
(***************************************************************************)

\* Whatever the text of S3_BUCKETS_WORKSPACE_RESTRICTIONS, the access
\* check lets a workspace use a bucket exactly when the last rule that
\* restricts the bucket lists it, or no rule does: blanks around names do
\* not matter, rules without ':' or without workspaces restrict nothing,
\* and a later rule for a bucket replaces an earlier one.
RestrictionFollowsLastRuleFor(input) ==
    LET restrictions == parse_bucket_restrictions_from_str(input)
    IN  \A b, w \in BucketNames :
          check_bucket_workspace_restriction(restrictions, b, w) <=> RefAllowed(input, b, w)

\* A permission written by serialize reads back as itself, and two written
\* lists joined with ',' (advanced permission rules merged by hand) read
\* back as the union of their flags.
PermissionRoundTripFor(p, q) ==
    /\ DeserializePermission(SerializePermission(p)) = p
    /\ DeserializePermission(SerializePermission(p) \o <<",">> \o SerializePermission(q))
         = (p | q)

====
