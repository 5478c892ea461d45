------------------------------ MODULE UserConfig ------------------------------
(***************************************************************************)
(* The configurations an administrator edits (rcon/user_config) and the    *)
(* endpoints that edit them.  A configuration is one row of user_config.   *)
(*                                                                         *)
(* What a value holds is abstracted to what the handlers tell apart: its   *)
(* fields, which every value of a class has, and the keys of a dictionary  *)
(* whose keys the administrator chooses (level_thresholds by role,         *)
(* disallowed weapons by name).  Messages, URLs and numbers within a field *)
(* are one of two contents; whether a payload passes the validators of its *)
(* class is the payload's kind.                                            *)
(***************************************************************************)
EXTENDS FiniteSets

CONSTANT FreeKeys     \* keys a dictionary of a configuration may have

Absent == [stored |-> FALSE]

Value(content, keys) == [stored |-> TRUE, content |-> content, keys |-> keys]

\* A class's default instance: the default of every field, no free key.
Default == Value(0, {})

(***************************************************************************)
(* A class, as its save_to_db treats a payload: keyCheck, whether a key    *)
(* that is no field is refused; freeKeys, whether a field is a dictionary  *)
(* with keys of the administrator's; sameShape, whether save_to_db takes   *)
(* what model_dump gives.                                                  *)
(***************************************************************************)
Class(keyCheck, freeKeys, sameShape) ==
    [keyCheck |-> keyCheck, freeKeys |-> freeKeys, sameShape |-> sameShape]

AutoBroadcastUserConfig == Class(TRUE, FALSE, FALSE)   \* "60 text" in, {time_sec, message} out
AutoVoteKickUserConfig == Class(TRUE, FALSE, TRUE)
AutoModLevelUserConfig == Class(TRUE, TRUE, TRUE)
AutoModNoLeaderUserConfig == Class(TRUE, FALSE, TRUE)
AutoModSeedingUserConfig == Class(TRUE, TRUE, TRUE)
AutoModNoSoloTankUserConfig == Class(TRUE, FALSE, TRUE)
BanTeamKillOnConnectUserConfig == Class(TRUE, FALSE, TRUE)
CameraNotificationUserConfig == Class(TRUE, FALSE, TRUE)
ChatCommandsUserConfig == Class(TRUE, FALSE, TRUE)
ExpiredVipsUserConfig == Class(TRUE, FALSE, TRUE)
GtxServerNameChangeUserConfig == Class(TRUE, FALSE, TRUE)
LogLineWebhookUserConfig == Class(TRUE, FALSE, TRUE)
LogStreamUserConfig == Class(FALSE, FALSE, TRUE)
NameKickUserConfig == Class(TRUE, FALSE, TRUE)
RconConnectionSettingsUserConfig == Class(TRUE, FALSE, TRUE)
RconServerSettingsUserConfig == Class(TRUE, FALSE, TRUE)
RealVipUserConfig == Class(FALSE, FALSE, TRUE)
ScorebotUserConfig == Class(TRUE, FALSE, TRUE)
BaseStandardMessageUserConfig == Class(TRUE, FALSE, TRUE)
SteamUserConfig == Class(TRUE, FALSE, TRUE)
VacGameBansUserConfig == Class(TRUE, FALSE, TRUE)
VoteMapUserConfig == Class(TRUE, FALSE, TRUE)
BaseMentionWebhookUserConfig == Class(FALSE, FALSE, TRUE)   \* keys of a hook only
BaseWebhookUserConfig == Class(FALSE, FALSE, TRUE)
AdminPingWebhooksUserConfig == Class(FALSE, FALSE, TRUE)
ChatWebhooksUserConfig == Class(FALSE, FALSE, TRUE)
KillsWebhooksUserConfig == Class(FALSE, FALSE, TRUE)

(***************************************************************************)
(* The get_, describe_, validate_ and set_ endpoints of a class.  All of   *)
(* them have the handlers of UserSettings; they differ in which of them    *)
(* record_audit wraps.                                                     *)
(***************************************************************************)
Endpoints(class, validateRecorded, setRecorded) ==
    [class |-> class, validateRecorded |-> validateRecorded, setRecorded |-> setRecorded]

auto_broadcasts_config == Endpoints(AutoBroadcastUserConfig, FALSE, TRUE)
votekick_autotoggle_config == Endpoints(AutoVoteKickUserConfig, FALSE, TRUE)
auto_mod_level_config == Endpoints(AutoModLevelUserConfig, FALSE, TRUE)
auto_mod_no_leader_config == Endpoints(AutoModNoLeaderUserConfig, FALSE, TRUE)
auto_mod_seeding_config == Endpoints(AutoModSeedingUserConfig, FALSE, TRUE)
auto_mod_solo_tank_config == Endpoints(AutoModNoSoloTankUserConfig, FALSE, TRUE)
tk_ban_on_connect_config == Endpoints(BanTeamKillOnConnectUserConfig, FALSE, TRUE)
camera_notification_config == Endpoints(CameraNotificationUserConfig, FALSE, TRUE)
expired_vip_config == Endpoints(ExpiredVipsUserConfig, FALSE, TRUE)
server_name_change_config == Endpoints(GtxServerNameChangeUserConfig, FALSE, TRUE)
log_line_webhook_config == Endpoints(LogLineWebhookUserConfig, FALSE, TRUE)
name_kick_config == Endpoints(NameKickUserConfig, FALSE, TRUE)
rcon_connection_settings_config == Endpoints(RconConnectionSettingsUserConfig, FALSE, TRUE)
rcon_server_settings_config == Endpoints(RconServerSettingsUserConfig, FALSE, TRUE)
scorebot_config == Endpoints(ScorebotUserConfig, FALSE, TRUE)
standard_broadcast_messages == Endpoints(BaseStandardMessageUserConfig, FALSE, FALSE)
standard_punishments_messages == Endpoints(BaseStandardMessageUserConfig, FALSE, FALSE)
standard_welcome_messages == Endpoints(BaseStandardMessageUserConfig, FALSE, FALSE)
steam_config == Endpoints(SteamUserConfig, FALSE, TRUE)
vac_game_bans_config == Endpoints(VacGameBansUserConfig, FALSE, TRUE)
admin_pings_discord_webhooks_config == Endpoints(AdminPingWebhooksUserConfig, FALSE, TRUE)
audit_discord_webhooks_config == Endpoints(BaseWebhookUserConfig, FALSE, TRUE)
camera_discord_webhooks_config == Endpoints(BaseMentionWebhookUserConfig, FALSE, FALSE)
chat_discord_webhooks_config == Endpoints(ChatWebhooksUserConfig, FALSE, TRUE)
kills_discord_webhooks_config == Endpoints(KillsWebhooksUserConfig, FALSE, TRUE)
watchlist_discord_webhooks_config == Endpoints(BaseMentionWebhookUserConfig, FALSE, FALSE)
chat_commands_config == Endpoints(ChatCommandsUserConfig, FALSE, FALSE)
log_stream_config == Endpoints(LogStreamUserConfig, FALSE, FALSE)
votemap_config == Endpoints(VoteMapUserConfig, TRUE, TRUE)
real_vip_config == Endpoints(RealVipUserConfig, FALSE, TRUE)

AllEndpoints ==
    { auto_broadcasts_config, votekick_autotoggle_config, auto_mod_level_config,
      auto_mod_no_leader_config, auto_mod_seeding_config, auto_mod_solo_tank_config,
      tk_ban_on_connect_config, camera_notification_config, expired_vip_config,
      server_name_change_config, log_line_webhook_config, name_kick_config,
      rcon_connection_settings_config, rcon_server_settings_config, scorebot_config,
      standard_broadcast_messages, standard_punishments_messages,
      standard_welcome_messages, steam_config, vac_game_bans_config,
      admin_pings_discord_webhooks_config, audit_discord_webhooks_config,
      camera_discord_webhooks_config, chat_discord_webhooks_config,
      kills_discord_webhooks_config, watchlist_discord_webhooks_config,
      chat_commands_config, log_stream_config, votemap_config, real_vip_config }

\* Every value a class's row may hold.
ValuesOf(class) ==
    { Value(c, ks) : c \in {0, 1}, ks \in IF class.freeKeys THEN SUBSET FreeKeys ELSE {{}} }

(***************************************************************************)
(* A payload: what the administrator wants stored, and how it is sent.     *)
(*   "good"     as the class asks for it                                   *)
(*   "invalid"  a field a validator refuses, or a key missing              *)
(*   "extra"    with a key that is no field                                *)
(*   "dumped"   in the shape the get endpoint answers                      *)
(* Of one with reset_to_default among its keys nothing else is looked at.  *)
(***************************************************************************)
PayloadKinds == {"good", "invalid", "extra", "dumped"}

ToDefault == [value |-> Default, kind |-> "good", reset |-> TRUE]

Payloads(class) ==
    {ToDefault} \cup [value : ValuesOf(class), kind : PayloadKinds, reset : {FALSE}]

\* save_to_db reaches set_user_config.
Accepts(class, payload) ==
    \/ payload.kind = "good"
    \/ payload.kind = "extra" /\ ~class.keyCheck
    \/ payload.kind = "dumped" /\ class.sameShape

(***************************************************************************)
(* The transaction of set_user_config and of seed_db's _set_default, on a  *)
(* row.  The SELECT of _get_conf may see no row although there is one: the *)
(* database did not answer it (the error is swallowed), or the INSERT of   *)
(* another session was not yet committed.  Then the value is INSERTed, and *)
(* the unique key makes the commit fail.                                   *)
(***************************************************************************)
SelectSees(row, blind) == IF blind THEN Absent ELSE row

CommitFails(row, blind) == blind /\ row # Absent

set_user_config(row, value, blind) ==
    IF CommitFails(row, blind) THEN row ELSE value

\* A variant without the unique key.
SetDefaultTwice(row, blind) == IF SelectSees(row, blind) = Absent THEN Default ELSE row

SetDefault(row, blind) ==
    IF SelectSees(row, blind) = Absent /\ ~CommitFails(row, blind) THEN Default ELSE row

\* load_from_db: the row, or a default instance where no row is seen.
load_from_db(row, blind) ==
    IF SelectSees(row, blind) = Absent THEN Default ELSE row

\* dict_differences walks the old keys and looks each up in the new value.
LookupFails(old, new) == ~(old.keys \subseteq new.keys)

dict_differences(old, new) == IF old.content # new.content THEN {"content"} ELSE {}

===============================================================================
