----------------------------- MODULE ManagedFile -----------------------------
(***************************************************************************)
(* How the Console keeps a managed configuration file (channels-store.ts,  *)
(* rules-store.ts, templates-store.ts): the text is written to a temporary *)
(* path beside the file and renamed over it.  The temporary path is named  *)
(* after the process, so the writers of one process share it: the second   *)
(* open truncates what the first has written, and the first rename takes   *)
(* the inode that both are writing.                                        *)
(*                                                                         *)
(* The file system is a record: the inode behind the managed path, the     *)
(* inode behind the temporary path, and the text in each inode.  Contents  *)
(* are abstract configurations; a text that two writers left in one inode  *)
(* is torn: the later text, followed by a tail of a longer earlier one.    *)
(***************************************************************************)
CONSTANTS
    Inode,
    NoFile       \* the path names no file

EmptyText == [state |-> "empty"]
Whole(c)  == [state |-> "whole", cfg |-> c]
Torn(c)   == [state |-> "torn", cfg |-> c]

Text(Config) == {EmptyText} \cup [state : {"whole", "torn"}, cfg : Config]

FileSystem(Config) ==
    [live : Inode \cup {NoFile}, tmp : Inode \cup {NoFile}, text : [Inode -> Text(Config)]]

\* No path and no open descriptor refers to the inode.
Free(fs, held, i) == i \notin {fs.live, fs.tmp} \cup held

\* writeFile opens the temporary path with O_CREAT | O_TRUNC.
OpensTmp(fs, held, i) ==
    IF fs.tmp = NoFile THEN Free(fs, held, i) ELSE i = fs.tmp

Opened(fs, i) == [fs EXCEPT !.tmp = i, !.text[i] = EmptyText]

\* writeFile writes its text from offset 0 of the inode that it opened.
Written(fs, i, c) ==
    {[fs EXCEPT !.text[i] = Whole(c)]}
    \cup IF fs.text[i] = EmptyText THEN {} ELSE {[fs EXCEPT !.text[i] = Torn(c)]}

\* writeFile fails on the way: an incomplete text reads as a torn one does.
PartlyWritten(fs, i, c) == {fs, [fs EXCEPT !.text[i] = Torn(c)]}

\* rename moves whatever is behind the temporary path now.
Renamed(fs) == [fs EXCEPT !.live = fs.tmp, !.tmp = NoFile]

\* seedIfMissing when no request is there yet; its caller only logs a failure.
Seedings(fs, c) ==
    {fs} \cup UNION {PartlyWritten(Opened(fs, i), i, c)
                      \cup {Renamed(w) : w \in Written(Opened(fs, i), i, c)} :
                        i \in {j \in Inode : OpensTmp(fs, {}, j)}}

\* What readFile and parse return: the fallback when the file is missing or
\* empty, and for a torn text an exception or the later configuration.
Parsed(fs, fallback, unreadable) ==
    IF fs.live = NoFile \/ fs.text[fs.live] = EmptyText
    THEN {fallback}
    ELSE LET t == fs.text[fs.live]
         IN  {t.cfg} \cup IF t.state = "torn" THEN {unreadable} ELSE {}
=============================================================================
