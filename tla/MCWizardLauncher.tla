--------------------------- MODULE MCWizardLauncher ---------------------------
(* Values for model checking WizardLauncher.                               *)
EXTENDS WizardLauncher, TLC

CONSTANTS packDoc, bundleDoc, out

MCSchemas == {"1.0.0", "2.0.0"}
MCDelegated == {packDoc, bundleDoc}

Document(wizard, action, delegate, version, self) ==
    [wizard |-> wizard, action |-> action, delegate |-> delegate,
     schema |-> version, self |-> self]
\* A launcher document of either schema, one without a delegate's document,
\* one with a malformed one, one with an unknown action, both delegates' own
\* and a stranger's.
AllDocuments ==
    {Document("launcher", "pack", packDoc, "1.0.0", packDoc),
     Document("launcher", "bundle", bundleDoc, "2.0.0", bundleDoc),
     Document("launcher", "pack", NoDoc, "1.0.0", packDoc),
     Document("launcher", "bundle", BadDoc, "1.0.0", packDoc),
     Document("launcher", "other", packDoc, "1.0.0", packDoc),
     Document("pack", "other", NoDoc, "1.0.0", packDoc),
     Document("bundle", "other", NoDoc, "1.0.0", bundleDoc),
     Document("other", "pack", NoDoc, "1.0.0", packDoc)}

Command(menu, dry, yes, unattended, tty) ==
    [menu |-> menu, dry |-> dry, yes |-> yes, unattended |-> unattended,
     tty |-> tty, emit |-> FALSE, migrate |-> FALSE, schema |-> NoSchema,
     out |-> NoDir]
Answers == Command(FALSE, FALSE, TRUE, TRUE, FALSE)
Apply == Command(FALSE, FALSE, FALSE, FALSE, FALSE)
ApplyAtTerminal == Command(FALSE, FALSE, FALSE, TRUE, TRUE)
Validate == Command(FALSE, TRUE, TRUE, TRUE, FALSE)
AtMenu == Command(TRUE, FALSE, FALSE, FALSE, TRUE)
DryMenu == Command(TRUE, TRUE, FALSE, FALSE, TRUE)
NoTerminal == Command(TRUE, FALSE, FALSE, FALSE, FALSE)

AllCommands ==
    {Answers, Apply, ApplyAtTerminal, NoTerminal, DryMenu,
     [Answers EXCEPT !.out = out], [Validate EXCEPT !.out = out],
     [Validate EXCEPT !.emit = TRUE, !.schema = "2.0.0"],
     [Answers EXCEPT !.emit = TRUE, !.schema = "2.0.0", !.migrate = TRUE],
     AtMenu, [AtMenu EXCEPT !.emit = TRUE]}
\* The launchers run the same code.
Symmetry == Permutations(Launchers)
=============================================================================
