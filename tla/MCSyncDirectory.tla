--------------------------- MODULE MCSyncDirectory ---------------------------
(***************************************************************************)
(* Instances of SyncDirectory for TLC.                                     *)
(***************************************************************************)
EXTENDS SyncDirectory, TLC

CONSTANTS docs, store, a1, b1, c1, c2, c3

OneDir   == <<docs>>
TwoDirs  == <<docs, store>>
KindOne  == docs :> "tagged"
KindTwo  == docs :> "tagged" @@ store :> "universal"
KindVault == docs :> "tagged" @@ store :> "vault"

NoneBegins == {}
ABeginsB   == {<< <<a1>>, <<b1>> >>}

NameOne  == {<< <<a1>> >>}
NamesFlat == {<< <<a1>> >>, << <<b1>> >>}
NamesDeep == {<< <<a1>> >>, << <<b1>>, <<a1>> >>}
NamesTwoFolders == {<< <<a1>>, <<a1>> >>, << <<b1>>, <<a1>> >>}

PeerActs == {"add", "change", "move", "remove", "tag", "connect"}
FileActs == {"write", "delete", "rename", "in", "out"}
FolderActs == {"rename over", "folder in", "folder out", "folder rename"}

\* One act of the user and two of peers, in turn: contents of one name ...
Contents == [contents |-> {c1, c2}, names |-> NameOne, acts |-> FileActs \cup PeerActs,
             user |-> 1, peer |-> 2, stops |-> 0, pullsFail |-> FALSE, pace |-> "settled"]

\* ... and names of one content.
Names == [Contents EXCEPT !.contents = {c1}, !.names = NamesFlat]

\* Two acts of the user, with folders, one of which is spelled like a file's name
\* begins, and one of peers.
Folders == [contents |-> {c1, c2}, names |-> NamesDeep,
            acts |-> FileActs \cup FolderActs \cup PeerActs,
            user |-> 2, peer |-> 1, stops |-> 0, pullsFail |-> FALSE, pace |-> "settled"]

\* One of each at any time, with folders, a stop, and pulls that fail.
Racing == [contents |-> {c1, c2}, names |-> NamesTwoFolders,
           acts |-> FileActs \cup FolderActs \cup {"rename across"} \cup PeerActs,
           user |-> 1, peer |-> 1, stops |-> 1, pullsFail |-> TRUE, pace |-> "racing"]

\* Three writes of one name and a stop: what a start may find.
Writes == [contents |-> {c1, c2, c3}, names |-> NameOne, acts |-> {"write"},
           user |-> 3, peer |-> 0, stops |-> 1, pullsFail |-> FALSE, pace |-> "quick"]

\* Peers alone, and a stop.
Peers == [contents |-> {c1, c2}, names |-> NamesFlat, acts |-> {"add", "change", "move", "connect"},
          user |-> 0, peer |-> 2, stops |-> 1, pullsFail |-> TRUE, pace |-> "quick"]

\* Peers alone, faster than the directory follows.
QuickPeers == [contents |-> {c1, c2}, names |-> NamesDeep, acts |-> {"add", "move"},
               user |-> 0, peer |-> 3, stops |-> 0, pullsFail |-> FALSE, pace |-> "racing"]

\* A folder and its neighbour, whose name begins with its name.
Siblings == [contents |-> {c1, c2}, names |-> NamesDeep, acts |-> {"write", "folder out"},
             user |-> 3, peer |-> 0, stops |-> 0, pullsFail |-> FALSE, pace |-> "settled"]

\* The user deletes what peers are changing.
Meeting == [contents |-> {c1, c2}, names |-> NameOne, acts |-> {"delete", "add", "change"},
            user |-> 1, peer |-> 2, stops |-> 0, pullsFail |-> FALSE, pace |-> "racing"]

\* Folders again, with three acts of the user.
MoreFolders == [Folders EXCEPT !.acts = FolderActs \cup {"write", "add", "move", "remove"}, !.user = 3]

\* User, peers and daemon at the same file, and a stop.
MoreRacing == [contents |-> {c1, c2, c3}, names |-> NamesFlat, acts |-> {"write", "add", "change", "move"},
               user |-> 1, peer |-> 2, stops |-> 1, pullsFail |-> TRUE, pace |-> "racing"]

All == {Contents, Names, Folders, Racing, Writes, Peers}
OnlyQuickPeers == {QuickPeers}
OnlySiblings == {Siblings}
OnlyMeeting == {Meeting}
OnlyMoreFolders == {MoreFolders}
OnlyMoreRacing == {MoreRacing}
==============================================================================
