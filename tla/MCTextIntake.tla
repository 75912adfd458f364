---------------------------- MODULE MCTextIntake ----------------------------
\* The instance of the TextIntake run: two orders, a page, a repository sent with a note,
\* PAY and RERUN; the operator takes the repository out.
EXTENDS TextIntake

MCOrders == 1 .. 2
NoLinks == [s \in Slots |-> NoLink]
Say(word, links, note) == [word |-> word, links |-> links, note |-> note]
MCTexts == {Say("", [NoLinks EXCEPT !["url"] = "page"], FALSE),
            Say("", [NoLinks EXCEPT !["repo"] = "repo"], TRUE),
            Say("PAY", NoLinks, FALSE), Say("RERUN", NoLinks, FALSE)}
MCResets == {[slot |-> "repo", link |-> NoLink]}
=============================================================================
