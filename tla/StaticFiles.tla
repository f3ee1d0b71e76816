---------------------------- MODULE StaticFiles ----------------------------
(***************************************************************************)
(* Which file answers a request path: the search list of directories, the  *)
(* fallback to .html, index.html and .jet, and what may not be served.      *)
(*                                                                         *)
(* A name is [dirs, stem, exts]: a/b/foo.html.jet is                        *)
(* [dirs |-> <<"a", "b">>, stem |-> "foo", exts |-> <<"html", "jet">>].     *)
(* A request path that ends in "/" has stem "". A directory of the search   *)
(* list is the set of the names of the files in it.                         *)
(***************************************************************************)
EXTENDS Integers, Sequences, Functions

CONSTANTS UploadRoot,  \* the directories of http.upload.dir, under the first one
          Hidden       \* the segments that start with a dot

Name(dirs, stem, exts) == [dirs |-> dirs, stem |-> stem, exts |-> exts]
With(name, exts) == [name EXCEPT !.exts = @ \o exts]

\* s is where t begins.
Leads(s, t) == Len(s) <= Len(t) /\ s = SubSeq(t, 1, Len(s))

\* The name read as a directory.
AsDir(name) == IF name.stem = "" THEN name.dirs ELSE Append(name.dirs, name.stem)

hasDotSegment(name) == (Range(name.dirs) \cup {name.stem}) \cap Hidden # {}

IsFile(dir, name) == name \in dir
IsDir(dir, name) == name.exts = <<>> /\ \E f \in dir : Leads(AsDir(name), f.dirs)

\* The first directory of the list that has the name; 0 when none has.
openMulti(Dirs, name) ==
  LET at == {i \in DOMAIN Dirs : IsFile(Dirs[i], name) \/ IsDir(Dirs[i], name)}
  IN IF at = {} THEN 0 ELSE CHOOSE i \in at : \A j \in at : i <= j

\* Only the first directory holds uploads.
isUpload(i, name) == i = 1 /\ UploadRoot # <<>> /\ Leads(UploadRoot, name.dirs)

Missing == [kind |-> "none"]
Plain(i, name) == [kind |-> "file", dir |-> i, name |-> name]
Jet(i, name) == [kind |-> IF isUpload(i, name) THEN "excluded" ELSE "jet", dir |-> i, name |-> name]

\* The first of the candidate directories that holds the template source.
jetCandidateAt(Dirs, at, name) ==
  LET found == {i \in at : IsFile(Dirs[i], name)}
  IN IF found = {} THEN Missing ELSE Jet(CHOOSE i \in found : \A j \in found : i <= j, name)

NeedsTrailingSlash(Dirs, name) ==
  /\ name.stem # "" /\ ~hasDotSegment(name)
  /\ openMulti(Dirs, name) # 0
  /\ ~IsFile(Dirs[openMulti(Dirs, name)], name)

\* index.html is looked for in every directory and served from the one that
\* has the requested directory, as the code does.
ResolveDir(Dirs, i, name) ==
  LET index == Name(AsDir(name), "index", <<"html">>)
      j == openMulti(Dirs, index)
  IN IF j # 0 /\ IsFile(Dirs[j], index) THEN Plain(i, index)
     ELSE jetCandidateAt(Dirs, {i}, With(index, <<"jet">>))

Resolve(Dirs, name) ==
  LET i == openMulti(Dirs, name)
      html == With(name, <<"html">>)
      h == openMulti(Dirs, html)
  IN CASE hasDotSegment(name) -> Missing
       [] i # 0 /\ IsFile(Dirs[i], name) -> Plain(i, name)
       [] i # 0 -> ResolveDir(Dirs, i, name)
       [] i = 0 /\ name.exts # <<>> -> jetCandidateAt(Dirs, DOMAIN Dirs, With(name, <<"jet">>))
       [] i = 0 /\ name.exts = <<>> /\ h # 0 /\ IsFile(Dirs[h], html) -> Plain(h, html)
       [] OTHER -> jetCandidateAt(Dirs, DOMAIN Dirs, With(html, <<"jet">>))

=============================================================================
