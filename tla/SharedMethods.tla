---------------------------- MODULE SharedMethods ----------------------------
(***************************************************************************)
(* The methods both transports share (transport/shared): the frames they   *)
(* accept, pages and cursors, and the rendering of prompts.  Text is       *)
(* abstracted to its length, a path to the sequence of its components.     *)
(***************************************************************************)
EXTENDS Naturals, Integers, Sequences, FiniteSets, SequencesExt

CONSTANTS
    PageSize,          \* pageSize
    MaxRenderedBytes,  \* maxRenderedPromptBytes
    WrapBytes          \* what wrapPromptArgumentValue adds to a value

ASSUME SizesAssumption ==
    /\ PageSize \in Nat \ {0}
    /\ MaxRenderedBytes \in Nat
    /\ WrapBytes \in Nat

-----------------------------------------------------------------------------
(* Frames: one JSON-RPC message each.                                      *)

\* The message has a method, or is the response of a client: then it names
\* what it answers and holds a result or an error, not both.
IsResponse(f) == f.method = "" /\ f.body # {}

Malformed(f) ==
    \/ f.json # "object" \/ f.id = "invalid" \/ ~f.typed \/ ~f.version
    \/ f.method = "" /\ (f.id = "absent" \/ Cardinality(f.body) # 1)
    \/ f.method # "" /\ f.params = "other"
    \/ f.method = "initialize" /\ f.id = "absent"

\* ParseJSONRPCFrame: a prebuilt response is an error for the client.
ParseFrame(f) ==
    IF f.json = "empty" THEN "parse_error"
    ELSE IF Malformed(f) THEN "prebuilt"
    ELSE IF IsResponse(f) THEN "one_way"
    ELSE "request"

-----------------------------------------------------------------------------
(* Pages: a cursor is the number of items before the page.  No cursor is   *)
(* the cursor 0, and -1 stands for one that is no number.                  *)

ValidCursor(c, total) == 0 <= c /\ c <= total

PageEnd(c, total) == IF c + PageSize < total THEN c + PageSize ELSE total

\* Mutant: a cursor is given when the page ends the list.
NextCursor_Inclusive(c, total) ==
    IF PageEnd(c, total) <= total THEN PageEnd(c, total) ELSE 0

\* Mutant: the next page begins one item late.
NextCursor_Past(c, total) == IF PageEnd(c, total) < total THEN PageEnd(c, total) + 1 ELSE 0

\* 0: there is no further page.
NextCursor(c, total) == IF PageEnd(c, total) < total THEN PageEnd(c, total) ELSE 0

Page(items, c) == SubSeq(items, c + 1, PageEnd(c, Len(items)))

-----------------------------------------------------------------------------
(* Prompts.  A template is a sequence of segments: text, with its length,  *)
(* or a placeholder, with its key and its length.                          *)

Keys(p) == {seg.key : seg \in Range(p.template)} \ {""}

\* Arguments come in the order of their raw keys; the last one with the same
\* trimmed key wins, and one with an empty key is dropped.
NormalizeArguments(raw) ==
    [k \in {r.key : r \in Range(raw)} \ {""} |->
        raw[CHOOSE i \in DOMAIN raw :
              /\ raw[i].key = k
              /\ \A j \in DOMAIN raw : raw[j].key = k => j <= i].size]

\* Strict mode: every declared argument and every placeholder is required.
StrictError(p, args, o) ==
    LET required == p.declared \cup Keys(p) IN
      IF o.mode # "strict" THEN ""
      ELSE IF required \ DOMAIN args # {} THEN "missing_arguments"
      ELSE IF o.rejectUnknown /\ DOMAIN args \ required # {} THEN "unknown_arguments"
      ELSE ""

Covers(root, path) == IsPrefix(root.path, path)

NoRoot == [path |-> <<>>, tier |-> "restricted"]

\* Mutant: the first of the roots that cover the prompt decides.
BetterRoot_First(best, root, path) ==
    IF Covers(root, path) /\ best = NoRoot THEN root ELSE best
BetterRoot(best, root, path) ==
    IF Covers(root, path) /\ Len(root.path) >= Len(best.path) THEN root ELSE best

\* The longest root that covers the source of a prompt gives its tier; among
\* roots of the same path the last one.
BestRoot(path, roots) ==
    LET best[i \in 0 .. Len(roots)] ==
          IF i = 0 THEN NoRoot ELSE BetterRoot(best[i - 1], roots[i], path)
    IN best
GovernanceTier(path, roots) == BestRoot(path, roots)[Len(roots)].tier

\* The bytes a template renders to.  A placeholder without a value is kept by
\* the plain rendering and empty in the advanced one.  Tokens of control and
\* tokens with a dot are left to the template engine in the advanced mode
\* (helpers.go:689-702): no template here has one, and `broken' marks those the
\* engine rejects.
Rendered(p, args, advanced) ==
    LET value(seg) == IF advanced THEN args[seg.key] ELSE args[seg.key] + WrapBytes
        bytes(seg) == IF seg.key \in DOMAIN args THEN value(seg)
                      ELSE IF seg.key # "" /\ advanced THEN 0 ELSE seg.size
    IN FoldLeft(LAMBDA n, seg : n + bytes(seg), 0, p.template)

\* Plain rendering without arguments or placeholders is the template itself,
\* whatever its size.
Unrendered(p, args, o) == o.mode # "advanced" /\ (DOMAIN args = {} \/ Keys(p) = {})

PromptOutcome(p, raw, o) ==
    LET args == NormalizeArguments(raw) IN
      IF StrictError(p, args, o) # "" THEN StrictError(p, args, o)
      ELSE IF o.mode = "advanced" /\ GovernanceTier(p.source, o.roots) # "trusted"
        THEN "governance_restricted"
      ELSE IF o.mode = "advanced" /\ p.broken THEN "render_error"
      ELSE IF ~Unrendered(p, args, o)
              /\ Rendered(p, args, o.mode = "advanced") > MaxRenderedBytes THEN "too_large"
      ELSE "rendered"
=============================================================================
