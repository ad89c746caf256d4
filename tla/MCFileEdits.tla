---------------------------- MODULE MCFileEdits ----------------------------
(* Two files with text and one path that is free, batches over both in either order. *)
EXTENDS FileEdits

MCFirstDisk == [f \in Files |-> CASE f = 1 -> << "a", "b" >> [] f = 2 -> << "a", "a" >> [] OTHER -> Absent]

Rule(p, r, n) == [pattern |-> p, replacement |-> r, count |-> n]
On(f, rules) == [file |-> f, rules |-> rules, expected |-> Absent]
OnText(f, text, rules) == [file |-> f, rules |-> rules, expected |-> text]
Batch(ops, max, dry) == [tool |-> "replace", ops |-> ops, max |-> max, dry |-> dry]
Line(k, l) == [kind |-> k, line |-> l]
Update(f, to, hunks) == [kind |-> "update", file |-> f, to |-> to, hunks |-> hunks]
Add(f, text) == [kind |-> "add", file |-> f, text |-> text]
Delete(f) == [kind |-> "delete", file |-> f]
Patch(ops, dry) == [tool |-> "patch", ops |-> ops, dry |-> dry]
Write(f, text, dry) == [tool |-> "write", file |-> f, text |-> text, dry |-> dry]

(* replaces "b" by "x" after "a"; replaces the first of two "a" by bytes *)
BtoX == << Line(" ", "a"), Line("-", "b"), Line("+", "x") >>
AtoBad == << Line("-", "a"), Line(" ", "a"), Line("+", Bad) >>

Batches == {
  Batch(<< On(1, << Rule("a", "c", 0) >>), On(2, << Rule("a", "c", 1) >>) >>, 9, FALSE),
  Batch(<< On(2, << Rule("a", "d", 1) >>), OnText(1, << "a", "b" >>, << Rule("b", "d", 0) >>),
           OnText(1, << "a", "b" >>, << Rule("c", "e", 0) >>) >>, 9, FALSE),
  Batch(<< On(1, << Rule("b", "a", 0) >>), On(2, << Rule("a", "b", 0) >>) >>, 2, FALSE),
  Batch(<< On(2, << Rule("a", "c", 0) >>) >>, 9, TRUE),
  Batch(<< On(1, << Rule("a", "c", 0) >>), OnText(1, << "a", "b" >>, << Rule("b", "c", 0) >>) >>, 9, FALSE) }

Changes == {
  Patch(<< Update(1, 1, << BtoX >>), Update(2, 3, << AtoBad >>) >>, FALSE),
  Patch(<< Delete(2), Add(3, << "y" >>) >>, FALSE),
  Patch(<< Add(3, << "y" >>), Update(1, 1, << << Line("-", "x"), Line("+", "y") >> >>) >>, FALSE),
  Patch(<< Update(1, 1, << << Line("+", "y") >> >>) >>, FALSE),
  Patch(<< Update(1, 2, << >>) >>, TRUE),
  Patch(<< >>, FALSE),
  Write(2, << "a", Bad >>, FALSE) }

(* Two updates of the same file in one patch. *)
Twice == Patch(<< Update(2, 2, << AtoBad >>), Update(1, 1, << BtoX >>),
                  Update(1, 1, << << Line("-", "a"), Line("+", "y"), Line(" ", "b") >> >>) >>, FALSE)

MCCalls == Batches \cup Changes \cup {Twice}
=============================================================================
