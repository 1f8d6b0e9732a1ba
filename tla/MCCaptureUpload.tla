-------------------------- MODULE MCCaptureUpload --------------------------
(***************************************************************************)
(* Instances of CaptureUpload for TLC, in worlds chosen in Init: the kinds *)
(* of form one run at a time, with crashes and retries; one large form in  *)
(* the hands of two workers; and one page submitted twice by two requests. *)
(***************************************************************************)
EXTENDS CaptureUpload

CONSTANTS u1, u2, p1, p2, p3, s1, s2

\* Uploads are interchangeable.
MCSymmetry == Permutations(Uploads)

Image(p, item) == [kind |-> "image", pages |-> <<p>>, item |-> item]

File(kind, pages) == [kind |-> kind, pages |-> pages, item |-> None]

Form(files, trip, declared) ==
  [files |-> files, trip |-> trip, declared |-> declared, header |-> TRUE]

Scan == Form(<<File("pdf", <<p1, p2>>)>>, "none", TRUE)

Bill == Form(<<Image(p1, "ap_holding")>>, "none", FALSE)

MCWorlds ==
  {[sessions |-> {s1}, split |-> split, most |-> 2, forms |-> {Scan, Bill}] : split \in BOOLEAN}
  \cup
  {[sessions |-> {s1}, split |-> FALSE, most |-> 1, forms |->
     {Form(<<Image(p1, None), File("other", <<>>)>>, "none", FALSE),
      Form(<<File("zip", <<p1, p2>>), Image(p3, None)>>, "none", TRUE),
      [Scan EXCEPT !.header = FALSE],
      Form(<<Image(p1, "ap_holding"), Image(p3, "eclaim")>>, "good", TRUE),
      Form(<<Image(p1, None), Image(p1, "eclaim")>>, "none", TRUE),
      Form(<<>>, "unroutable", TRUE)}],
   [sessions |-> {s1, s2}, split |-> TRUE, most |-> 1, forms |-> {Scan}]}
=============================================================================
