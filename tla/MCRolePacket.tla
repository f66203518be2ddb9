---------------------------- MODULE MCRolePacket ----------------------------
EXTENDS RolePacket
=============================================================================
