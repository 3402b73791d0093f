---------------------------- MODULE MCSimulator ----------------------------
(* A TEXT file, and one that is a STRING or, after a file table that ends  *)
(* in the middle of an entry, a picture; payloads no builder builds.       *)
EXTENDS Simulator

A == 65  B == 66  a == 97

FileTable == Configuration(<<TextEntry(B, 2), StringEntry(a, 1)>>)

MCCommands ==
  {FileTable,
   Wipe,
   Message(B, <<110, 48>>, <<72>>),
   Message(PriorityFile, <<98>>, <<DotsInsert, a>>),
   Release,
   Value(a, <<55>>),
   Picture(a, <<<<49, 50>>>>),
   Sequence(<<A, B>>),
   Clock("time", <<9, 5>>)}

MCCrafted ==
  {<<WriteText, PriorityFile, SOM, Middle>>,
   <<WriteText, A, SOM, Middle, 98, SOH, 72>>,
   <<WriteString, a, 55, 56>>,
   <<WriteSpecial, SetTime, Digits(25), Digits(0)>>,
   <<WriteSpecial, SetMemory>> \o Encode(DotsEntry(a, 1, 2)) \o <<A, TextFile>>}

\* One longer than any frame that is sent whole, so that it can be overlong.
MCBreakable == {Payload(FileTable) \o Encode(TextEntry(A, 1))}
=============================================================================
