-------------------------- MODULE MCComicDownloads --------------------------
(* Instances of ComicPages and ComicDownloads for TLC. *)
EXTENDS ComicDownloads, TLC

CONSTANTS e1, e2, d1, d2, p, q, r, s, t, none

TwoEditors == {e1, e2}
TwoReaders == {d1, d2}
Images     == {p, q, r, s, t}

\* Wide and Chapters: three pages, and two chapters, one operation after the
\* other.  Deep: two operations overlap on a comic that exists, and a fourth
\* meets what they left behind.  Failing: any operation may fail, and the second
\* may begin before the first has ended.  Read: a download at any time of two
\* operations.  Race: two downloads, of a comic of one page.  Twice: an image may
\* be uploaded again.
Wide == [images |-> {p, q, r}, chapters |-> 1, ops |-> 3, overlap |-> {}, fails |-> FALSE,
         repeats |-> FALSE, downloads |-> 0]
Chapters == [Wide EXCEPT !.images = {s, t}, !.chapters = 2]
Deep == [images |-> {s, t}, chapters |-> 1, ops |-> 4, overlap |-> {3}, fails |-> FALSE,
         repeats |-> FALSE, downloads |-> 0]
Failing == [Deep EXCEPT !.ops = 3, !.overlap = {2}, !.fails = TRUE]
Read == [images |-> {s, t}, chapters |-> 1, ops |-> 2, overlap |-> {}, fails |-> TRUE,
         repeats |-> FALSE, downloads |-> 1]
Race == [images |-> {s}, chapters |-> 0, ops |-> 2, overlap |-> {}, fails |-> FALSE,
         repeats |-> FALSE, downloads |-> 2]

Twice == [images |-> {s, t}, chapters |-> 1, ops |-> 3, overlap |-> {}, fails |-> FALSE,
          repeats |-> TRUE, downloads |-> 0]

AllScales == {Wide, Chapters, Deep, Failing, Read, Race, Twice}

\* Editors and image names are opaque to every operation.
Alike == Permutations({p, q, r}) \cup Permutations({s, t}) \cup Permutations(Editor)
=============================================================================
