--------------------------- MODULE MCFetchFiles ---------------------------
(* Downloads of one or two files: a film beside its sample and named like  *)
(* a sample, a post that was never unpacked, or in part, an empty file, a   *)
(* size that nobody reports and one that is reported wrong.                *)
EXTENDS FetchFiles

File(n, k, s, b) == [name |-> n, kind |-> k, size |-> s, bytes |-> b]

Packed == {File("a", "archive", 2, 2), File("b", "sample", 1, 1)}

MCDownloads ==
    {[kind |-> "torrent", post |-> {File("a", "sample", 2, 2), File("b", "video", 1, 1)}],
     [kind |-> "usenet", post |-> Packed],
     [kind |-> "usenet", post |-> {File("a", "archive", 1, 1), File("b", "other", 0, 0)}],
     [kind |-> "usenet", post |-> {File("a", "video", 1, 2)}],
     [kind |-> "torrent", post |-> {File("a", "video", 0, 2)}]}

\* No filter, and the four together.
MCFilters ==
    {[min |-> 0, max |-> 0, pass |-> {"a", "b"}], [min |-> 1, max |-> 1, pass |-> {"b"}]}

\* The targets are alike: which one is the first makes no difference.
MCInit == FilesInit /\ target = "home"
MCSpec == MCInit /\ [][FilesNext]_vars /\ WF_vars(FetchStep)
=============================================================================
