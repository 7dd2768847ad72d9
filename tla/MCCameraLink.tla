---------------------------- MODULE MCCameraLink ----------------------------
\* Instances of CameraLink for TLC.
EXTENDS CameraLink
=============================================================================
