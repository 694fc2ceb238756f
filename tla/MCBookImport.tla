---------------------------- MODULE MCBookImport ----------------------------
\* Small instances of BookImport: the books providers answer.
EXTENDS BookImportInvariant, TLC

MCEntry == {<<"first", "Ana">>, <<"second", "Berta">>, <<"first", "Carla">>,
            <<"en", "en">>, <<"es", "es">>, <<"fr", "fr">>,
            <<"novel", "novel">>, <<"unlisted", "unlisted">>}

MCExternal ==
    {[book |-> "b1", title |-> "t1", content |-> "r1", format |-> "f1",
      lists |-> [book_authors |-> {<<"first", "Ana">>, <<"second", "Berta">>},
                 book_languages |-> {<<"en", "en">>, <<"es", "es">>},
                 book_categories |-> {<<"unlisted", "unlisted">>}]],
     [book |-> "b1", title |-> "t1", content |-> "r2", format |-> "f2",
      lists |-> [book_authors |-> {<<"first", "Carla">>},
                 book_languages |-> {<<"en", "en">>, <<"fr", "fr">>},
                 book_categories |-> {<<"novel", "novel">>}]],
     [book |-> "b1", title |-> "t2", content |-> "r3", format |-> "f1",
      lists |-> [book_authors |-> {<<"first", "Ana">>},
                 book_languages |-> {<<"es", "es">>},
                 book_categories |-> {<<"novel", "novel">>}]],
     [book |-> "b2", title |-> "t2", content |-> "r2", format |-> "f2",
      lists |-> [book_authors |-> {},
                 book_languages |-> {<<"fr", "fr">>},
                 book_categories |-> {}]],
     [book |-> "b1", title |-> "t1", content |-> "r1", format |-> "page", lists |-> NoLists],
     [book |-> "b2", title |-> "t2", content |-> None, format |-> None, lists |-> NoLists]}

\* A row of a first import, and one from before books had a format.
MCImported == {[title |-> "t1", content |-> "r1", format |-> "f1"]}
MCStored == MCImported \cup {[title |-> "t1", content |-> "r1", format |-> None]}

Symmetry == Permutations(Task)
=============================================================================
