------------------------------ MODULE MCAnswers ------------------------------
(* Up to three results of six kinds, in each order and with repetitions: relevant in the title, in the
   text, by a stopword only, or not at all; with and without image and page; on a page another one
   has too; credited to one engine, two or none. The queries are a keyword query, a question that is
   rewritten, one by its mark only, and one that keeps its stopword since it is not a question. *)
EXTENDS Answers

MCStarters == {"who"}
MCStopwords == {"the"}
MCQueries == {[words |-> <<"ceo", "tnb">>, mark |-> FALSE],
              [words |-> <<"who", "ceo", "the", "tnb">>, mark |-> FALSE],
              [words |-> <<"tnb", "the", "ceo">>, mark |-> TRUE],
              [words |-> <<"the", "ceo", "tnb">>, mark |-> FALSE]}

Found(title, text, engines, page, image) ==
    [title |-> title, text |-> text, engines |-> engines, page |-> page, image |-> image]

MCResults == {
    Found({"ceo"}, {"the"}, {"a"}, "p", TRUE),
    Found({"ceo", "the"}, {}, {}, "p", FALSE),
    Found({}, {"ceo", "tnb"}, {"a", "b"}, "q", TRUE),
    Found({"tnb"}, {"ceo"}, {"c"}, "r", TRUE),
    Found({"the"}, {"ceo"}, {"b"}, "none", TRUE),
    Found({}, {}, {"c"}, "s", TRUE)}

MCLn == [nm \in (1..3) \X (0..3) |->
    CASE nm = <<1, 0>> -> 693
      [] nm = <<2, 0>> -> 1099 [] nm = <<2, 1>> -> 405
      [] nm = <<3, 0>> -> 1386 [] nm = <<3, 1>> -> 693 [] nm = <<3, 2>> -> 288
      [] OTHER -> 0]
=============================================================================
