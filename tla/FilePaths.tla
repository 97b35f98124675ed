----------------------------- MODULE FilePaths -----------------------------
(***************************************************************************)
(* Path names (src/core/filesystem.cc): a path is a sequence whose         *)
(* elements are the slash and names, the scheme (gs://, s3://, as://) left *)
(* out.  A name never contains a slash and is never empty.                 *)
(***************************************************************************)
EXTENDS Integers, Sequences, SequencesExt

Slash == "/"
IsSlash(c) == c = Slash
IsName(c) == c # Slash

IsAbsolutePath(path) == path # << >> /\ Head(path) = Slash

\* One segment appended to what is joined so far.
Joined(joined, seg) ==
    CASE joined = << >> -> seg
      [] joined # << >> /\ IsAbsolutePath(seg) ->
           joined \o (IF Last(joined) = Slash THEN Tail(seg) ELSE seg)
      [] OTHER -> joined \o (IF Last(joined) = Slash THEN seg ELSE <<Slash>> \o seg)

JoinPath(segments) == FoldLeft(Joined, << >>, segments)

\* The position of the last character that is not a trailing slash; both
\* functions stop at the first character whatever it is.
LastName(path) == LET n == SelectLastInSeq(path, IsName) IN IF n = 0 THEN 1 ELSE n

\* The last slash before that position, 0 when there is none.
LastSlash(path) == SelectLastInSubSeq(path, 1, LastName(path), IsSlash)

BaseName(path) ==
    CASE path = << >> -> << >>
      [] path # << >> /\ IsSlash(path[LastName(path)]) -> << >>
      [] OTHER -> SubSeq(path, LastSlash(path) + 1, LastName(path))

DirName(path) ==
    CASE path = << >> -> << >>
      [] path # << >> /\ IsSlash(path[LastName(path)]) -> <<Slash>>
      [] path # << >> /\ IsName(path[LastName(path)]) /\ LastSlash(path) = 0 -> <<".">>
      [] path # << >> /\ IsName(path[LastName(path)]) /\ LastSlash(path) = 1 -> <<Slash>>
      [] OTHER -> SubSeq(path, 1, LastSlash(path) - 1)

\* S3: the leading slashes go, then as many characters are kept as the path
\* has up to its last name: with leading slashes that many of the trailing
\* ones stay.  Runs of slashes become one.  << >> stands for the error.
Collapsed(clean, c) ==
    IF c = Slash /\ clean # << >> /\ Last(clean) = Slash THEN clean ELSE Append(clean, c)

CleanPath(path) ==
    LET left == SelectInSeq(path, IsName)
        right == SelectLastInSeq(path, IsName)
        end == IF left - 1 + right > Len(path) THEN Len(path) ELSE left - 1 + right
    IN  IF left = 0 THEN << >> ELSE FoldLeft(Collapsed, << >>, SubSeq(path, left, end))

\* The bucket and the object of a path, [bucket |-> << >>] for the error.
\* A slash right at the start does not end the bucket.
SplitBucket(path) ==
    LET slash == SelectInSeq(path, IsSlash)
    IN  IF slash > 1 THEN [bucket |-> SubSeq(path, 1, slash - 1),
                           object |-> SubSeq(path, slash + 1, Len(path))]
        ELSE [bucket |-> path, object |-> << >>]

GcsParsePath(path) == SplitBucket(path)
S3ParsePath(path) == SplitBucket(CleanPath(path))

\* Taking a path apart gives back what JoinPath put together, however many
\* slashes the directory ends with: the repository manager joins a repository
\* and a model name and the back ends take the version directory apart again.
\* The file systems of GCS and S3 see the same bucket and the same names in
\* the same order, however the user repeats slashes (a path that starts with
\* one has no bucket).
PathsRoundTrip(dir, name) ==
    dir # << >> =>
    LET path == JoinPath(<<dir, <<name>>>>)
    IN  /\ BaseName(path) = <<name>>
        /\ BaseName(DirName(path)) = BaseName(dir)
        /\ JoinPath(<<dir, <<Slash, name>>>>) = path
        /\ ~IsAbsolutePath(dir) =>
              /\ S3ParsePath(path).bucket = GcsParsePath(path).bucket
              /\ SelectSeq(S3ParsePath(path).object, IsName)
                   = SelectSeq(GcsParsePath(path).object, IsName)
              /\ CleanPath(CleanPath(path)) = CleanPath(path)
============================================================================
