-------------------------- MODULE MCMysqlConnPool --------------------------
(* Instance of MysqlConnPool for TLC; the cfg gives the sizes.             *)
EXTENDS MysqlConnPool
=============================================================================
