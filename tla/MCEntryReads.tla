----------------------------- MODULE MCEntryReads -----------------------------
(* Two articles, one citing the other, and the profile of their author, whose *)
(* best article is the first; in the second world the last article cites     *)
(* itself and both are best.                                                 *)
EXTENDS EntryReads

Posted == [a1 |-> [author |-> {"w1"}, cover |-> {"a2"}], a2 |-> [author |-> {"w1"}, cover |-> {}],
           w1 |-> [best |-> {"a1"}]]
Ringed == [Posted EXCEPT !.a2.cover = {"a2"}, !.w1.best = {"a1", "a2"}]
SomeWorlds == {Posted, Ringed}

(* Editors confined to their own articles; profiles for the owner alone. *)
Open == [read |-> [article |-> {}, profile |-> {}], own |-> [article |-> {}, profile |-> {}],
         field |-> [author |-> {}, cover |-> {}, best |-> {}]]
SomeLists == {[Open EXCEPT !.own.article = {"editor"}],
              [Open EXCEPT !.read.profile = {"owner"}, !.field.cover = {"owner", "editor"}]}

Reader(k, r, u) == [kind |-> k, role |-> r, user |-> u]
SomeReaders == {Reader("user", "owner", "u0"), Reader("user", "editor", "u1"),
   Reader("delivery", "viewer", "edge"),
   [kind |-> "agent", role |-> "editor", user |-> "u1", types |-> {"article"}],
   [kind |-> "preview", role |-> "viewer", user |-> "edge", only |-> "a1"]}

SomePaths == {{}, {<<"author">>}, {<<"author", "best", "cover">>}, {<<"cover", "author">>, <<"author", "best">>},
              {<<"best", "cover">>}, {<<"author", "best", "author", "best">>}}

Authors == [a1 |-> "u1", a2 |-> "u2", w1 |-> "u2"]
Groups == [a1 |-> "g1", a2 |-> "g1", w1 |-> "g2"]
Locales == [a1 |-> "en", a2 |-> "de", w1 |-> "en"]

=============================================================================
