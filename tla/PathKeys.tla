------------------------------ MODULE PathKeys ------------------------------
(***************************************************************************)
(* How a path argument becomes a registry key, and how keys are compared:  *)
(* the string functions of crates/devkit-locks/src/model.rs and the path   *)
(* functions of crates/devkit-locks/src/lib.rs, on real character strings. *)
(*                                                                         *)
(* A component is a sequence of characters, a path a sequence of           *)
(* components below the file system root.  The two variables are the two   *)
(* arguments, relative to the project root `Root`, that two callers pass;  *)
(* they grow one component at a time, so an invariant ranges over every    *)
(* pair of arguments up to MaxParts components.                            *)
(***************************************************************************)
EXTENDS Integers, SequencesExt

CONSTANTS
  FileNames,  \* ordinary components: non-empty sequences of characters
  Root,       \* the project root: a sequence of ordinary components
  MaxParts    \* bound on the components of an argument

VARIABLES left, right

pathVars == <<left, right>>

CurDir == <<".">>
ParentDir == <<".", ".">>

ASSUME PathKeysAssumption ==
  /\ MaxParts \in Nat
  /\ \A n \in FileNames :
       n \in Seq(STRING) /\ n # <<>> /\ "/" \notin Range(n) /\ n \notin {CurDir, ParentDir}
  /\ Root \in Seq(FileNames)

Components == FileNames \cup {CurDir, ParentDir}

(***************************************************************************)
(* Normalising an argument                                                 *)
(***************************************************************************)

Outside == [ok |-> FALSE, path |-> <<>>]

(* Mutant: `..` is skipped like `.`.                                       *)
StepUnderRootKeepsParent(parts, c) ==
  IF c \in {CurDir, ParentDir} THEN parts ELSE Append(parts, c)

(* One component of the loop: `..` pops, on an empty list too.             *)
StepUnderRoot(parts, c) ==
  CASE c = CurDir    -> parts
    [] c = ParentDir -> IF parts = <<>> THEN <<>> ELSE Front(parts)
    [] OTHER         -> Append(parts, c)

(* normalize_under_root: strip_prefix compares components, nothing else.   *)
NormalizeUnderRoot(abs, root) ==
  IF IsPrefix(root, abs)
  THEN [ok   |-> TRUE,
        path |-> FoldLeft(StepUnderRoot, <<>>, SubSeq(abs, Len(root) + 1, Len(abs)))]
  ELSE Outside

(* One component of the other loop, below the root directory: `..` takes   *)
(* an ordinary name away and is absorbed by the root directory.            *)
StepLexically(stack, c) ==
  IF c \in FileNames THEN Append(stack, c)
  ELSE IF c = ParentDir /\ stack # <<>> THEN Front(stack)
  ELSE stack

(* normalize_lexically on an absolute path.                                *)
NormalizeLexically(abs) == FoldLeft(StepLexically, <<>>, abs)

(* The key path of an argument given relative to the project root.         *)
NormalizeArg(arg) == NormalizeUnderRoot(Root \o arg, Root)

(***************************************************************************)
(* Comparing keys                                                          *)
(***************************************************************************)

(* parts.join("/"), and "." for the root itself.                           *)
Render(path) ==
  IF path = <<>> THEN CurDir
  ELSE FoldLeft(LAMBDA s, c : s \o <<"/">> \o c, Head(path), Tail(path))

(* Mutant: a bare character prefix, so `a` is above `ab`.                  *)
StripsToSlashAnywhere(long, short) == IsPrefix(short, long)

(* long.strip_prefix(short) leaves something that starts with '/'.         *)
StripsToSlash(long, short) ==
  /\ IsPrefix(short, long)
  /\ Len(long) > Len(short)
  /\ long[Len(short) + 1] = "/"

PathsOverlapText(a, b) ==
  \/ a = b \/ a = CurDir \/ b = CurDir
  \/ IF Len(a) <= Len(b) THEN StripsToSlash(b, a) ELSE StripsToSlash(a, b)

IsAncestorOrSelfText(existing, writer) ==
  existing = writer \/ StripsToSlash(writer, existing)

CoversChildrenText(claim, dir) ==
  claim = CurDir \/ claim = dir \/ StripsToSlash(dir, claim)

(***************************************************************************)
(* Every pair of arguments                                                 *)
(***************************************************************************)

PathInit == left = <<>> /\ right = <<>>

ExtendLeft(c) == Len(left) < MaxParts /\ left' = Append(left, c) /\ UNCHANGED right

ExtendRight(c) == Len(right) < MaxParts /\ right' = Append(right, c) /\ UNCHANGED left

PathNext == \E c \in Components : ExtendLeft(c) \/ ExtendRight(c)

PathSpec == PathInit /\ [][PathNext]_pathVars

(***************************************************************************)
(* Properties                                                              *)
(***************************************************************************)

(* The three string tests on rendered keys (paths_overlap, covers_children *)
(* and, on two non-root keys, is_ancestor_or_self) answer exactly the      *)
(* component-prefix questions that module LockModel asks.                  *)
TextTestsArePrefixTests ==
  LET p == NormalizeArg(left).path
      q == NormalizeArg(right).path
  IN  /\ PathsOverlapText(Render(p), Render(q)) <=> (IsPrefix(p, q) \/ IsPrefix(q, p))
      /\ CoversChildrenText(Render(p), Render(q)) <=> IsPrefix(p, q)
      /\ p # <<>> /\ q # <<>> =>
           (IsAncestorOrSelfText(Render(p), Render(q)) <=> IsPrefix(p, q))

(* The argument climbs above the project root somewhere on its way.        *)
Climbs(arg) ==
  \E n \in 0..Len(arg) : ~IsPrefix(Root, NormalizeLexically(Root \o SubSeq(arg, 1, n)))

(* Two arguments that never leave the root get one key exactly when they   *)
(* name one file: the rendered key of normalize_under_root identifies the  *)
(* lexically cleaned path, so no two spellings of a file get two claims.   *)
OneKeyPerFile ==
  ~Climbs(left) /\ ~Climbs(right) =>
    ( Render(NormalizeArg(left).path) = Render(NormalizeArg(right).path)
      <=> NormalizeLexically(Root \o left) = NormalizeLexically(Root \o right) )
=============================================================================
