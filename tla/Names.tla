------------------------------- MODULE Names --------------------------------
(***************************************************************************)
(* Names of documents: the URI a document has in the vector store, the     *)
(* canonical path of an S3 object, and the three notions of an extension.  *)
(* A path is a sequence of the characters "/", "\\", ":", ".", " " and     *)
(* others; an extension may stand in it as a single one.                   *)
(***************************************************************************)
EXTENDS Naturals, Sequences, SequencesExt

Letters == {"a", "b", "s"}
SchemeCharacters == Letters \cup {"3", "+", "-", "."}

\* The index of the first place where pattern is in path, or 0.
FirstIndexOf(pattern, path) ==
  SelectInSeq([i \in DOMAIN path |-> SubSeq(path, i, Len(path))],
              LAMBDA rest : IsPrefix(pattern, rest))

has_uri_scheme(path) ==
  LET i == FirstIndexOf(<<":", "/", "/">>, path)
  IN  i > 1 /\ path[1] \in Letters /\ \A k \in 1..(i - 1) : path[k] \in SchemeCharacters

Normalized(path) == ReplaceAll(path, "\\", "/")

\* Mutant: what stands before a ":/" is taken for the name of a drive and left
\* out.
UriWithoutDrive(path) ==
  LET normalized == Normalized(path)
      colon      == FirstIndexOf(<<":", "/">>, normalized)
  IN  CASE has_uri_scheme(path) -> path
        [] ~has_uri_scheme(path) /\ colon # 0 ->
             <<"file://", "/">> \o SubSeq(normalized, colon + 2, Len(normalized))
        [] OTHER -> <<"file://">> \o normalized

\* A path with a drive, and any other that does not start with "/", gets a "/".
canonical_path_to_file_uri(path) ==
  LET normalized == Normalized(path)
      has_drive  == FirstIndexOf(<<":", "/">>, normalized) # 0
      rooted     == normalized # <<>> /\ normalized[1] = "/"
  IN  CASE has_uri_scheme(path) -> path
        [] ~has_uri_scheme(path) /\ ~has_drive /\ rooted -> <<"file://">> \o normalized
        [] OTHER -> <<"file://", "/">> \o normalized

-----------------------------------------------------------------------------
(* S3 objects.                                                              *)

S3Scheme == <<"s", "3", ":", "/", "/">>

canonical_s3_path(bucket, key) == S3Scheme \o bucket \o <<"/">> \o key

\* Nothing, where the code returns an error.
parse_s3_uri(path) ==
  LET rest  == SubSeq(path, Len(S3Scheme) + 1, Len(path))
      slash == FirstIndexOf(<<"/">>, rest)
      location == [bucket |-> SubSeq(rest, 1, slash - 1), key |-> SubSeq(rest, slash + 1, Len(rest))]
  IN  IF /\ IsPrefix(S3Scheme, path) /\ slash # 0
         /\ ToSet(location.bucket) \ {" "} # {} /\ location.key # <<>>
      THEN {location} ELSE {}

-----------------------------------------------------------------------------
(* Extensions.                                                              *)

\* What stands behind the last of the marks, or all of it.
Behind(path, marks) ==
  SubSeq(path, Max({0} \cup {i \in DOMAIN path : path[i] \in marks}) + 1, Len(path))

\* Path::extension of the standard library, on Unix, by which the loader knows
\* PDF and DOCX: neither a "/" at the end nor a "/." counts, and a name that
\* only starts with a dot has no extension.
Path_extension(path) ==
  LET segment(i) == Behind(SubSeq(path, 1, i), {"/"})
      ends == {i \in DOMAIN path : /\ path[i] # "/" /\ (i < Len(path) => path[i + 1] = "/")
                                  /\ segment(i) # <<".">>}
      name == IF ends = {} THEN <<>> ELSE segment(Max(ends))
      extension == Behind(name, {"."})
  IN  IF name # <<".", ".">> /\ Len(extension) + 1 < Len(name) THEN {extension} ELSE {}

\* Mutant: only a slash ends the name of a directory.
HintOfSlash(path) ==
  LET name == Behind(path, {"/"})
      extension == Behind(name, {"."})
  IN  IF Len(extension) + 1 < Len(name) THEN {extension} ELSE {}

\* ChunkHint::from_path, by which the router knows the chunker.
hint_extension(path) ==
  LET name == Behind(path, {"/", "\\"})
      extension == Behind(name, {"."})
  IN  IF Len(extension) + 1 < Len(name) THEN {extension} ELSE {}

\* What a reader of the vector store may filter by.
file_extension_from_canonical_path(path) ==
  LET name == Behind(Normalized(path), {"/"})
      extension == Behind(name, {"."})
  IN  IF extension = name THEN <<>> ELSE extension
=============================================================================
