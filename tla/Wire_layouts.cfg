SPECIFICATION Spec
CONSTANTS
    Events = {
        "HANDSHAKE", "HEARTBEAT", "CHAT_MESSAGE", "ADMIN_MESSAGE",
        "PLAYER_DEATH", "PLAYER_CONNECT", "PLAYER_DISCONNECT",
        "PLAYER_TEAM_CHANGE", "PLAYER_CLASS_CHANGE", "UBER_DEPLOYED",
        "BUILDING_BUILT", "BUILDING_DESTROYED", "BUILDING_SAPPED",
        "BUILDING_HEALED", "PLAYER_IGNITED", "PLAYER_JARATED",
        "PLAYER_TELEPORTED", "MEDIC_DEATH", "ROUND_START", "ROUND_END",
        "MAP_CHANGE", "GAME_MODE_INFO", "PLAYER_HEALED", "PLAYER_HURT",
        "PLAYER_INVULNED", "PROJECTILE_DEFLECTED", "PLAYER_EXTINGUISHED",
        "SENTRY_ATTACK", "UBER_SHARE", "GHOST_SPAWN", "PLAYER_SYNC",
        "HEAL_REQUEST", "HEAL_CONFIRM", "DAMAGE_REQUEST", "DAMAGE_CONFIRM"}
    Agreed = {
        "HANDSHAKE", "HEARTBEAT", "CHAT_MESSAGE", "ADMIN_MESSAGE",
        "PLAYER_DEATH", "PLAYER_CONNECT", "PLAYER_DISCONNECT",
        "PLAYER_TEAM_CHANGE", "PLAYER_CLASS_CHANGE", "UBER_DEPLOYED",
        "BUILDING_BUILT", "BUILDING_DESTROYED", "BUILDING_SAPPED",
        "BUILDING_HEALED", "PLAYER_IGNITED", "PLAYER_JARATED",
        "PLAYER_TELEPORTED", "MEDIC_DEATH", "ROUND_START", "ROUND_END",
        "MAP_CHANGE", "GAME_MODE_INFO"}
    Lengths = {0, 1, 4, 7, 12, 20}
    Fills = {0, 250, 254, 255}
INVARIANTS TypeOK Understood Arrives
