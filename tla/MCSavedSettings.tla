-------------------------- MODULE MCSavedSettings --------------------------
(***************************************************************************)
(* The files for TLC: one repo, and what people have written in a file.    *)
(***************************************************************************)
EXTENDS SavedSettings

Text(table, twoWay, poll) ==
  [repos |-> Repos, twice |-> {}, poll |-> poll, active |-> 0, logins |-> Logins, twoWay |-> twoWay,
   notifications |-> [r \in Repos |-> table]]

MCConfigEdits ==
  {None, Broken, Text(None, None, 0),
   Text([notifyFor |-> "absent", valid |-> TRUE], [command |-> "absent", old |-> TRUE], None),
   Text([notifyFor |-> "empty", valid |-> TRUE], [command |-> "handler", old |-> TRUE], 300),
   Text([notifyFor |-> "mine", valid |-> FALSE], Broken, 300),
   [Text([notifyFor |-> "mine", valid |-> TRUE], None, 300) EXCEPT !.twice = Repos],
   [Text([notifyFor |-> "mine", valid |-> TRUE], None, 300) EXCEPT !.repos = {}]}

MCStateEdits ==
  {Broken, [kept |-> Broken, collapsed |-> TRUE], [kept |-> Repos, collapsed |-> Broken]}
=============================================================================
