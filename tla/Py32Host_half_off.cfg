SPECIFICATION HostSpec
PROPERTIES
    SilenceHides
