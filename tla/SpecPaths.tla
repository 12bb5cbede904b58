----------------------------- MODULE SpecPaths ------------------------------
(***************************************************************************)
(* The path builtins of the expression language (ops.fs.path of            *)
(* spec_lang.py), which touch no file.  A path is its text split at the    *)
(* slashes: "/a" is <<"", "a">>, "a//b" is <<"a", "", "b">> and "" is      *)
(* <<"">>.  A part is a name with its extension: "a.x" is [stem |-> "a",   *)
(* ext |-> ".x"], ".a" has none.  Left out: the white space around a path  *)
(* and names with two extensions.                                          *)
(***************************************************************************)
EXTENDS Naturals, Sequences, SequencesExt, FiniteSets

Part(stem) == [stem |-> stem, ext |-> ""]
Empty == Part("")
Here == Part(".")
Up == Part("..")

Text(parts) == IF parts = <<>> THEN <<Empty>> ELSE parts
Absolute(path) == Len(path) > 1 /\ Head(path) = Empty

-----------------------------------------------------------------------------
(* Slip: a step up from the root stays in the path. *)
ClimbsOverRoot(path) ==
    FoldLeft(LAMBDA out, part :
        CASE part \in {Empty, Here} -> out
          [] part = Up /\ out # <<>> -> Front(out)
          [] OTHER -> Append(out, part), <<>>, path)
(* The parts that are left: nothing is above the root, and a step up takes *)
(* the part before it away unless that is a step up itself.                *)
Kept(path) ==
    FoldLeft(LAMBDA out, part :
        CASE part \in {Empty, Here} -> out
          [] part = Up -> IF out # <<>> /\ Last(out) # Up THEN Front(out)
                          ELSE IF Absolute(path) THEN out ELSE Append(out, Up)
          [] OTHER -> Append(out, part), <<>>, path)

RootPath == <<Empty, Empty>>
HerePath == <<Here>>
Built(abs, parts) ==
    IF parts = <<>> THEN IF abs THEN RootPath ELSE HerePath
    ELSE IF abs THEN <<Empty>> \o parts ELSE parts

Normalize(path) == Built(Absolute(path), Kept(path))
Split(path) == Kept(path)

Basename(path) ==
    CASE Normalize(path) = RootPath -> Empty
      [] Normalize(path) = HerePath -> Here
      [] OTHER -> Last(Kept(path))

Dirname(path) ==
    IF Kept(path) = <<>> THEN Normalize(path) ELSE Built(Absolute(path), Front(Kept(path)))

Extname(path) == Basename(path).ext
Stem(path) == Basename(path).stem

(* base.rstrip("/"), a slash and the part; an empty base leaves the part. *)
RECURSIVE WithoutSlashes(_)
WithoutSlashes(path) ==
    IF Len(path) > 1 /\ Last(path) = Empty THEN WithoutSlashes(Front(path)) ELSE path
Join(base, path) ==
    IF base = <<Empty>> THEN Normalize(path) ELSE Normalize(WithoutSlashes(base) \o path)

HasExt(path, ext) == Extname(path) = ext
ChangeExt(path, ext) ==
    IF Basename(path) \in {Empty, Here} THEN Normalize(path)
    ELSE Built(Absolute(path), Append(Front(Kept(path)), [stem |-> Stem(path), ext |-> ext]))

-----------------------------------------------------------------------------
Shared(one, other) == LongestCommonPrefix({one, other})

Relativize(base, path) ==
    IF Absolute(base) # Absolute(path) THEN Normalize(path)
    ELSE LET n == Len(Shared(Kept(base), Kept(path)))
             rel == [i \in 1 .. Len(Kept(base)) - n |-> Up] \o SubSeq(Kept(path), n + 1, Len(Kept(path)))
         IN  IF rel = <<>> THEN HerePath ELSE rel

CommonPrefix(paths) ==
    IF paths = {} \/ Cardinality({Absolute(p) : p \in paths}) > 1 THEN HerePath
    ELSE Built(\A p \in paths : Absolute(p), LongestCommonPrefix({Kept(p) : p \in paths}))

(* The directories above, nearest first. *)
RECURSIVE ParentsFrom(_, _)
ParentsFrom(path, out) ==
    LET parent == Dirname(path)
    IN  IF parent = path \/ Contains(out, parent) THEN out
        ELSE IF parent \in {RootPath, HerePath} THEN Append(out, parent)
        ELSE ParentsFrom(parent, Append(out, parent))
Parents(path) ==
    IF Normalize(path) \in {RootPath, HerePath} THEN <<>> ELSE ParentsFrom(Normalize(path), <<>>)

Within(base, path) ==
    /\ Absolute(base) = Absolute(path)
    /\ \/ Normalize(base) \in {Normalize(path), RootPath, HerePath}
       \/ IsPrefix(Kept(base), Kept(path))
=============================================================================
