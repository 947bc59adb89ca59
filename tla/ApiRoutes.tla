----------------------------- MODULE ApiRoutes ------------------------------
(***************************************************************************)
(* The routes with which the bot changes what the caches are about.  A     *)
(* route is what the API does to its object, and what the caller stores    *)
(* once the API says that it is done; v is the object afterwards.  A       *)
(* caller that is not told stores nothing.                                 *)
(***************************************************************************)
EXTENDS GuildCache

Route(does, steps) == [does |-> does, stores |-> steps]

(* The id of a new channel is not stored with the guild.                   *)
CreateChannel(c, v) == Route("make", <<Insert("channel", c, v)>>)
ModifyChannel(c, v) == Route("alter", <<Insert("channel", c, v)>>)
(* Nothing is forgotten.                                                   *)
CloseChannel == Route("delete", <<>>)

ModifyMember(u, v) == Route("alter", <<Insert("user", u, v), InsertGuildUser(u, v)>>)
(* The member's roles change, and nothing is stored.                       *)
AddMemberRole == Route("alter", <<>>)
RemoveMemberRole == Route("alter", <<>>)
RemoveMember == Route("delete", <<>>)
CreateBan == Route("delete", <<>>)
(* The gateway tells of it, and the user is no member.                     *)
RemoveBan == Route("pardon", <<>>)

(* The copy that getCurrent answers with is not.                           *)
ModifyCurrentUser(v) == Route("alter", <<Insert("user", Me, v)>>)
LeaveGuild == Route("delete", <<>>)

RoutesAbout(x, v) ==
    CASE x \in Channels -> {CreateChannel(x, v), ModifyChannel(x, v), CloseChannel}
      [] x \in Threads -> {ModifyChannel(x, v), CloseChannel}
      [] x \in Users -> {ModifyMember(x, v), AddMemberRole, RemoveMemberRole, RemoveMember, CreateBan, RemoveBan}
      [] x = Me -> {ModifyCurrentUser(v)}
      [] x = Guild -> {LeaveGuild}
      [] OTHER -> {}

=============================================================================
